---------------------------- MODULE Spec2Model ----------------------------
(***************************************************************************)
(* A model of the timetable extraction pipeline of                         *)
(* frontend/src/pdfExtractor.ts.                                           *)
(*                                                                         *)
(* Strings are sequences of one-character strings, so that the regular     *)
(* expressions, slices, splits and joins of the source are computed        *)
(* character by character.  Coordinates are integers.                      *)
(***************************************************************************)
EXTENDS Integers, Sequences, FiniteSets, TLC

VARIABLES
    pc,          \* position of extractTimetableFromPDF
    file,        \* the document given to it
    apiKey,      \* openRouterApiKey
    items,       \* TextItem[] returned by extractTextItems
    dayRows,     \* RowBoundary[]
    columns,     \* ColumnBoundary[]
    cells,       \* GridCell[]
    heuristic,   \* the entry list built by step 4 (grid parsing)
    response,    \* what the fetch of refineWithAI settled with
    entries,     \* the local variable `entries` (its objects, as mutated)
    result,      \* the ExtractionResult returned, or the rejection
    vIn, vOnce, vTwice, vpc,          \* validateAndDeduplicate applied twice
    dItems, dPerm, dRowsA, dRowsB, dColsA, dColsB, dpc,  \* grid detection on two orders
    inv,                              \* the locals of two invocations in flight
    fIn, fOut, fpc,                   \* a function of the module applied to an argument
    db, answer, calls                 \* the server: its collections, its last answer, the requests answered

vars == <<pc, file, apiKey, items, dayRows, columns, cells, heuristic, response,
          entries, result, vIn, vOnce, vTwice, vpc,
          dItems, dPerm, dRowsA, dRowsB, dColsA, dColsB, dpc, inv, fIn, fOut, fpc,
          db, answer, calls>>

pipeVars == <<pc, file, apiKey, items, dayRows, columns, cells, heuristic, response,
              entries, result>>
valVars == <<vIn, vOnce, vTwice, vpc>>
detVars == <<dItems, dPerm, dRowsA, dRowsB, dColsA, dColsB, dpc>>
concVars == <<inv>>
fnVars == <<fIn, fOut, fpc>>
srvVars == <<db, answer, calls>>

----------------------------------------------------------------------------
(* Characters and strings *)

UpperChars == <<"A","B","C","D","E","F","G","H","I","J","K","L","M",
                "N","O","P","Q","R","S","T","U","V","W","X","Y","Z">>
LowerChars == <<"a","b","c","d","e","f","g","h","i","j","k","l","m",
                "n","o","p","q","r","s","t","u","v","w","x","y","z">>
DigitChars == <<"0","1","2","3","4","5","6","7","8","9">>

Range(s) == { s[i] : i \in DOMAIN s }

Max(S) == CHOOSE m \in S : \A n \in S : n <= m
Min(S) == CHOOSE m \in S : \A n \in S : m <= n

UpperSet == Range(UpperChars)
LetterSet == Range(UpperChars) \cup Range(LowerChars)
DigitSet == Range(DigitChars)

IsUpper(c) == c \in UpperSet
IsLetter(c) == c \in LetterSet
IsDigit(c) == c \in DigitSet
IsSpace(c) == c = " "

DigitVal(c) == (CHOOSE i \in DOMAIN DigitChars : DigitChars[i] = c) - 1

ToLowerChar(c) ==
    IF IsUpper(c)
    THEN LowerChars[CHOOSE i \in DOMAIN UpperChars : UpperChars[i] = c]
    ELSE c

\* String.prototype.toLowerCase
toLowerCase(s) == [i \in DOMAIN s |-> ToLowerChar(s[i])]

\* String.prototype.slice(0, n)
SliceTo(s, n) == SubSeq(s, 1, IF n < Len(s) THEN n ELSE Len(s))

\* String.prototype.startsWith
startsWith(s, p) == Len(p) <= Len(s) /\ SubSeq(s, 1, Len(p)) = p

\* the part of s from position i (1-based) on
From(s, i) == SubSeq(s, i, Len(s))

\* F applied to the value of v.  TLC evaluates v once and F on its value,
\* however many times F uses its argument.
Once(v, F(_)) == CHOOSE r \in { F(x) : x \in {v} } : TRUE

\* The sequence s as a tuple of its elements
Tuple(s) == SubSeq(s, 1, Len(s))

\* The elements of list at the indices of keep, in the order of list
PickSorted(list, keep) ==
    Tuple([k \in 1..Cardinality(keep) |->
             list[CHOOSE i \in keep : Cardinality({ j \in keep : j < i }) = k - 1]])

Pick(list, keep) ==
    Once(Tuple(list), LAMBDA l : Once(keep, LAMBDA K : PickSorted(l, K)))

\* String.prototype.trim (the only white space of the model is the blank)
TrimLeft(s) == From(s, Min({ i \in 1..(Len(s) + 1) : i = Len(s) + 1 \/ ~IsSpace(s[i]) }))
TrimRight(s) == SubSeq(s, 1, Max({ i \in 0..Len(s) : i = 0 \/ ~IsSpace(s[i]) }))
trim(s) == Once(s, LAMBDA t : Once(TrimLeft(t), LAMBDA u : TrimRight(u)))

\* The positions of the commas of s, with 0 before and Len(s) + 1 behind
Cuts(s) == { i \in 0..(Len(s) + 1) : i = 0 \/ i = Len(s) + 1 \/ s[i] = "," }

\* The part of s that starts behind the cut c and ends before the next cut
Piece(s, cuts, c) == SubSeq(s, c + 1, Min({ d \in cuts : d > c }) - 1)

\* The parts of s between its cuts, one for each cut but the last
Pieces(s, cuts) ==
    Tuple([k \in 1..(Cardinality(cuts) - 1) |->
             Piece(s, cuts, CHOOSE c \in cuts : Cardinality({ d \in cuts : d < c }) = k - 1)])

\* String.prototype.split(',')
splitComma(s) == Once(s, LAMBDA t : Once(Cuts(t), LAMBDA cuts : Pieces(t, cuts)))

\* Array.prototype.join(sep)
RECURSIVE JoinFrom(_, _, _)
JoinFrom(list, sep, i) ==
    IF i > Len(list) THEN <<>>
    ELSE IF i = Len(list) THEN list[i]
    ELSE list[i] \o sep \o JoinFrom(list, sep, i + 1)
join(list, sep) == Once(Tuple(list), LAMBDA l : JoinFrom(l, sep, 1))

\* Array.from(new Set(list)): the distinct elements in order of first occurrence
Distinct(list) ==
    Once(Tuple(list), LAMBDA l : Pick(l, { i \in DOMAIN l : \A j \in 1..(i - 1) : l[j] # l[i] }))

\* Array.prototype.flatMap over a list of lists
RECURSIVE FlattenFrom(_, _)
FlattenFrom(lists, i) ==
    IF i > Len(lists) THEN <<>> ELSE lists[i] \o FlattenFrom(lists, i + 1)
Flatten(lists) == Once(Tuple(lists), LAMBDA l : FlattenFrom(l, 1))

\* Array.prototype.filter(Boolean) on strings: drops the empty ones
NonEmpty(list) == SelectSeq(list, LAMBDA s : s # <<>>)

\* Array.prototype.sort with a comparator, which is stable: Before(a, b) says
\* that the comparator puts a strictly before b.
Rank(list, i, Before(_, _)) ==
    1 + Cardinality({ j \in DOMAIN list :
            \/ Before(list[j], list[i])
            \/ (~Before(list[i], list[j]) /\ j < i) })

StableSort(list, Before(_, _)) ==
    Once(Tuple(list), LAMBDA l :
        Tuple([r \in DOMAIN l |-> l[CHOOSE i \in DOMAIN l : Rank(l, i, Before) = r]]))

\* A truthy JSON value that is not a string (a number, true, an object) in a
\* field of an object the service returned.
NotAString == <<"<not a string>">>

----------------------------------------------------------------------------
(* Constants of the source *)

VALID_DAYS == <<
    <<"M","o","n","d","a","y">>,
    <<"T","u","e","s","d","a","y">>,
    <<"W","e","d","n","e","s","d","a","y">>,
    <<"T","h","u","r","s","d","a","y">>,
    <<"F","r","i","d","a","y">>,
    <<"S","a","t","u","r","d","a","y">>,
    <<"S","u","n","d","a","y">> >>

DAY_PATTERNS == [i \in DOMAIN VALID_DAYS |-> toLowerCase(VALID_DAYS[i])]

DEFAULT_TIME_SLOTS == <<
    [start |-> <<"0","8",":","1","0">>, end |-> <<"0","9",":","0","0">>],
    [start |-> <<"0","9",":","0","0">>, end |-> <<"0","9",":","5","0">>],
    [start |-> <<"0","9",":","5","0">>, end |-> <<"1","0",":","4","0">>],
    [start |-> <<"1","0",":","4","0">>, end |-> <<"1","1",":","3","0">>],
    [start |-> <<"1","1",":","3","0">>, end |-> <<"1","2",":","2","0">>],
    [start |-> <<"1","2",":","2","0">>, end |-> <<"1","3",":","1","0">>],
    [start |-> <<"1","3",":","1","0">>, end |-> <<"1","4",":","0","0">>],
    [start |-> <<"1","4",":","0","0">>, end |-> <<"1","4",":","5","0">>],
    [start |-> <<"1","4",":","5","0">>, end |-> <<"1","5",":","4","0">>],
    [start |-> <<"1","5",":","4","0">>, end |-> <<"1","6",":","3","0">>],
    [start |-> <<"1","6",":","3","0">>, end |-> <<"1","7",":","2","0">>] >>

----------------------------------------------------------------------------
(* Times: normalizeTime and snapToValidTimeSlot *)

\* Whether /(\d{1,2}):(\d{2})/ matches at position i with an hour of h digits
TimeAt(s, i, h) ==
    /\ i + h + 2 <= Len(s)
    /\ \A k \in 0..(h - 1) : IsDigit(s[i + k])
    /\ s[i + h] = ":"
    /\ IsDigit(s[i + h + 1])
    /\ IsDigit(s[i + h + 2])

\* The positions at which /(\d{1,2}):(\d{2})/ matches
TimeStarts(s) == { p \in 1..Len(s) : TimeAt(s, p, 1) \/ TimeAt(s, p, 2) }

\* /\d{1,2}:\d{2}/.test(s)
HasTime(s) == TimeStarts(s) # {}

\* A padding that adds "0" whatever the width of the hour: with it a
\* normalized time is no longer left as it is by a second normalizeTime
PadAlways(time, i) == <<"0">> \o SubSeq(time, i, i + 3)

\* `${match[1].padStart(2, '0')}:${match[2]}` for the match at position i
PadMatch(time, i) ==
    IF TimeAt(time, i, 2)              \* \d{1,2} is greedy
    THEN SubSeq(time, i, i + 4)
    ELSE <<"0">> \o SubSeq(time, i, i + 3)

\* The match is the leftmost one
NormalizeMatch(time, starts) == IF starts = {} THEN <<>> ELSE PadMatch(time, Min(starts))

normalizeTime(time) ==
    IF time = <<>> THEN <<>> ELSE NormalizeMatch(time, TimeStarts(time))

Abs(n) == IF n < 0 THEN -n ELSE n

\* A TimetableEntry
Entry(day, start, end, subject, teacher, room, block, className) ==
    [day |-> day, start_time |-> start, end_time |-> end, subject |-> subject,
     teacher |-> teacher, room |-> room, block |-> block, class_name |-> className]

\* toMin of snapToValidTimeSlot, on a normalized time
toMin(t) ==
    (DigitVal(t[1]) * 10 + DigitVal(t[2])) * 60 + DigitVal(t[4]) * 10 + DigitVal(t[5])

\* A snap that moves start_time only and keeps the end_time it was given
SnapKeepsEnd(entry, normalized) ==
    LET slots == DEFAULT_TIME_SLOTS
        diff(i) == Abs(toMin(slots[i].start) - toMin(normalized))
        nearest == CHOOSE i \in DOMAIN slots : \A j \in DOMAIN slots : diff(i) <= diff(j)
    IN  IF normalized = <<>> THEN entry
        ELSE [entry EXCEPT !.start_time = slots[nearest].start]

\* A snap whose loop would keep the last slot of the least difference
SnapLastNearest(entry, normalized) ==
    LET slots == DEFAULT_TIME_SLOTS
        exact == { i \in DOMAIN slots : slots[i].start = normalized }
        diff(i) == Abs(toMin(slots[i].start) - toMin(normalized))
        nearest == CHOOSE i \in DOMAIN slots :
                      /\ \A j \in DOMAIN slots : diff(i) <= diff(j)
                      /\ \A j \in (i + 1)..Len(slots) : diff(j) > diff(i)
        slot == IF exact # {} THEN slots[Min(exact)] ELSE slots[nearest]
    IN  IF normalized = <<>> THEN entry
        ELSE [entry EXCEPT !.start_time = slot.start, !.end_time = slot.end]

\* snapToValidTimeSlot once the start time is normalized
SnapNormalized(entry, normalized) ==
    LET slots == DEFAULT_TIME_SLOTS
        exact == { i \in DOMAIN slots : slots[i].start = normalized }
        diff(i) == Abs(toMin(slots[i].start) - toMin(normalized))
        \* the loop keeps the first slot of the least difference
        nearest == CHOOSE i \in DOMAIN slots :
                      /\ \A j \in DOMAIN slots : diff(i) <= diff(j)
                      /\ \A j \in 1..(i - 1) : diff(j) > diff(i)
        slot == IF exact # {} THEN slots[Min(exact)] ELSE slots[nearest]
    IN  IF normalized = <<>> THEN entry
        ELSE [entry EXCEPT !.start_time = slot.start, !.end_time = slot.end]

snapToValidTimeSlot(entry) == SnapNormalized(entry, normalizeTime(entry.start_time))

----------------------------------------------------------------------------
(* Step 2: grid detection.  A TextItem is [text, x, y, width]; fontSize is   *)
(* never read by the pipeline.                                              *)

TextItem(text, x, y, width) == [text |-> text, x |-> x, y |-> y, width |-> width]

\* DAY_PATTERNS.indexOf(lower), 0 for -1
PatternIndex(lower) ==
    IF \E i \in DOMAIN DAY_PATTERNS : DAY_PATTERNS[i] = lower
    THEN Min({ i \in DOMAIN DAY_PATTERNS : DAY_PATTERNS[i] = lower })
    ELSE 0

\* DAY_PATTERNS.indexOf(text.toLowerCase()), 0 for -1
DayIndex(text) == Once(Tuple(toLowerCase(text)), LAMBDA lower : PatternIndex(lower))

IsDayName(text) == DayIndex(text) # 0

topPadding == 35
RowSentinel == -9999
ColSentinel == 9999

\* The loop that keeps a day label unless a kept one has its day and a y
\* less than 10 away
RECURSIVE UniqueDays(_, _)
UniqueDays(dayItems, kept) ==
    IF dayItems = <<>> THEN kept
    ELSE LET d == dayItems[1]
         IN  IF \E i \in DOMAIN kept : kept[i].day = d.day /\ Abs(kept[i].y - d.y) < 10
             THEN UniqueDays(Tail(dayItems), kept)
             ELSE UniqueDays(Tail(dayItems), Append(kept, d))

\* Day labels that would be left in the order of the run list
SortDayItemsDocumentOrder(dayItems) == dayItems

\* dayItems.sort((a, b) => b.y - a.y)
SortDayItems(dayItems) == StableSort(dayItems, LAMBDA a, b : a.y > b.y)

\* The day labels as { day, y, x }
DayItemsOf(labels) ==
    Tuple([k \in DOMAIN labels |->
             [day |-> VALID_DAYS[DayIndex(labels[k].text)], y |-> labels[k].y, x |-> labels[k].x]])

\* The row of each kept day label
RowsOf(uniqueDays) ==
    Tuple([i \in DOMAIN uniqueDays |->
             [top |-> uniqueDays[i].y + topPadding,
              bottom |-> IF i < Len(uniqueDays)
                         THEN uniqueDays[i + 1].y + topPadding
                         ELSE RowSentinel,
              day |-> uniqueDays[i].day]])

findDayRows(its) ==
    Once(SelectSeq(its, LAMBDA i : IsDayName(i.text)), LAMBDA labels :
    Once(DayItemsOf(labels), LAMBDA dayItems :
    Once(SortDayItems(dayItems), LAMBDA sorted :
    Once(UniqueDays(sorted, <<>>), LAMBDA uniqueDays : RowsOf(uniqueDays)))))

\* /^\d{1,2}\.$/.test(text)
IsPeriodMarker(text) ==
    \/ Len(text) = 2 /\ IsDigit(text[1]) /\ text[2] = "."
    \/ Len(text) = 3 /\ IsDigit(text[1]) /\ IsDigit(text[2]) /\ text[3] = "."

\* parseInt of a period marker
PeriodNumber(text) ==
    IF Len(text) = 2 THEN DigitVal(text[1])
    ELSE DigitVal(text[1]) * 10 + DigitVal(text[2])

\* The even division of the fallback makes fractions of a unit: the left and
\* right of a ColumnBoundary are kept in units of 1/ColScale, exactly.
ColScale == Len(DEFAULT_TIME_SLOTS)
dayColWidth == 80
LeftShift == 8
TimeTolerance == 25
MinPeriodHeaders == 3
HeaderDrop == 100

\* .sort((a, b) => a.x - b.x)
SortByX(list) == StableSort(list, LAMBDA a, b : a.x < b.x)

\* The loop that keeps an x unless a kept one is less than 25 away
RECURSIVE UniqueTimeX(_, _)
UniqueTimeX(timeItems, kept) ==
    IF timeItems = <<>> THEN kept
    ELSE LET t == timeItems[1]
         IN  IF \E i \in DOMAIN kept : Abs(kept[i] - t.x) < TimeTolerance
             THEN UniqueTimeX(Tail(timeItems), kept)
             ELSE UniqueTimeX(Tail(timeItems), Append(kept, t.x))

\* A periodMap that would number the markers by their position in the header
PeriodMapByPosition(periodHeaders) ==
    Once(SelectSeq(periodHeaders, LAMBDA h :
            PeriodNumber(h.text) >= 1 /\ PeriodNumber(h.text) <= Len(DEFAULT_TIME_SLOTS)),
         LAMBDA inTable :
            Tuple([k \in DOMAIN inTable |-> [x |-> inTable[k].x, index |-> k - 1]]))

\* periodMap: the position and the 0-based index of the markers of the table
PeriodMap(periodHeaders) ==
    Once(SelectSeq(periodHeaders, LAMBDA h :
            PeriodNumber(h.text) >= 1 /\ PeriodNumber(h.text) <= Len(DEFAULT_TIME_SLOTS)),
         LAMBDA inTable :
            Tuple([k \in DOMAIN inTable |->
                     [x |-> inTable[k].x, index |-> PeriodNumber(inTable[k].text) - 1]]))

\* The columns built from periodMap (lines 183-197)
MapColumns(periodMap) ==
    Tuple([i \in DOMAIN periodMap |->
             [left |-> (periodMap[i].x - LeftShift) * ColScale,
              right |-> IF i < Len(periodMap)
                        THEN (periodMap[i + 1].x - LeftShift) * ColScale
                        ELSE ColSentinel * ColScale,
              periodIndex |-> periodMap[i].index,
              startTime |-> DEFAULT_TIME_SLOTS[periodMap[i].index + 1].start,
              endTime |-> DEFAULT_TIME_SLOTS[periodMap[i].index + 1].end]])

\* The columns built from the period markers (lines 172-198)
PeriodColumns(periodHeaders) ==
    Once(PeriodMap(periodHeaders), LAMBDA periodMap : MapColumns(periodMap))

\* The even division of the width right of the assumed day column, in units
\* of 1/ColScale (lines 215-224)
EvenPositions(minX, maxXPos) ==
    Tuple([i \in 1..Len(DEFAULT_TIME_SLOTS) |->
             (minX + dayColWidth) * ColScale + (maxXPos - (minX + dayColWidth)) * (i - 1)])

\* The x of the time strings of the header, kept unless less than 25 from a
\* kept one, in units of 1/ColScale (lines 201-211)
TimeAnchors(headerItems) ==
    Once(SelectSeq(headerItems, LAMBDA i : HasTime(i.text)), LAMBDA timeStringItems :
    Once(SortByX(timeStringItems), LAMBDA sorted :
    Once(UniqueTimeX(sorted, <<>>), LAMBDA uniqueTimeX :
        Tuple([k \in DOMAIN uniqueTimeX |-> uniqueTimeX[k] * ColScale]))))

\* columnXPositions, in units of 1/ColScale: the time-string anchors and, when
\* they are fewer than 2, the even division pushed after them (lines 200-225)
ColumnXPositions(its, headerItems) ==
    Once(TimeAnchors(headerItems), LAMBDA anchors :
        IF Len(anchors) < 2
        THEN anchors \o EvenPositions(Min({ its[k].x : k \in DOMAIN its }),
                                      Max({ its[k].x : k \in DOMAIN its }))
        ELSE anchors)

\* The columns built from the first n of columnXPositions (lines 227-243)
FirstColumns(columnXPositions, n) ==
    Tuple([i \in 1..n |->
             [left |-> columnXPositions[i] - LeftShift * ColScale,
              right |-> IF i < Len(columnXPositions)
                        THEN columnXPositions[i + 1] - LeftShift * ColScale
                        ELSE ColSentinel * ColScale,
              periodIndex |-> i - 1,
              startTime |-> DEFAULT_TIME_SLOTS[i].start,
              endTime |-> DEFAULT_TIME_SLOTS[i].end]])

\* The columns built from columnXPositions (lines 227-243)
PositionColumns(columnXPositions) ==
    Once(columnXPositions, LAMBDA xs :
        FirstColumns(xs, IF Len(xs) < Len(DEFAULT_TIME_SLOTS)
                         THEN Len(xs) ELSE Len(DEFAULT_TIME_SLOTS)))

\* The columns, given the items above headerBottomY and the period markers
\* among them
HeaderColumns(its, headerItems, periodHeaders) ==
    IF Len(periodHeaders) >= MinPeriodHeaders
    THEN PeriodColumns(periodHeaders)
    ELSE PositionColumns(ColumnXPositions(its, headerItems))

\* The items above headerBottomY
HeaderItems(its, headerBottomY) == SelectSeq(its, LAMBDA i : i.y > headerBottomY)

\* findColumnBoundaries, for a list of at least one item
findColumnBoundaries(its, rows) ==
    Once(HeaderItems(its, IF Len(rows) > 0 THEN rows[1].top
                          ELSE Max({ its[k].y : k \in DOMAIN its }) - HeaderDrop),
         LAMBDA headerItems :
    Once(SortByX(SelectSeq(headerItems, LAMBDA i : IsPeriodMarker(i.text))),
         LAMBDA periodHeaders : HeaderColumns(its, headerItems, periodHeaders)))

----------------------------------------------------------------------------
(* Step 3: mapping the items to the cells of the grid *)

\* The first position from i on that holds no white space (Len(s) + 1 if none)
RECURSIVE SkipSpaces(_, _)
SkipSpaces(s, i) == IF i <= Len(s) /\ IsSpace(s[i]) THEN SkipSpaces(s, i + 1) ELSE i

\* /^(p1|p2|...)/i.test(text), the prefixes given in lower case
StartsWithAny(text, prefixes) == \E p \in prefixes : startsWith(toLowerCase(text), p)

\* /^\d{1,2}:\d{2}$/.test(text)
IsBareTime(text) == \E h \in {1, 2} : TimeAt(text, 1, h) /\ Len(text) = h + 3

\* /^\d{1,2}:\d{2}\s*-\s*\d{1,2}:\d{2}$/.test(text)
IsTimeRange(text) ==
    \E h1 \in {1, 2}, h2 \in {1, 2} :
        /\ TimeAt(text, 1, h1)
        /\ LET dash == SkipSpaces(text, h1 + 4)
           IN  /\ dash <= Len(text)
               /\ text[dash] = "-"
               /\ LET t2 == SkipSpaces(text, dash + 1)
                  IN  TimeAt(text, t2, h2) /\ Len(text) = t2 + h2 + 2

NoisePrefixes ==
    { <<"t","i","m","e","t","a","b","l","e"," ","g","e","n","e","r","a","t","e","d">>,
      <<"a","s","c"," ","t","i","m","e","t","a","b","l","e","s">>,
      <<"m","a","n","a","v"," ","r","a","c","h","n","a">>,
      <<"u","n","i","v","e","r","s","i","t","y">>,
      <<"s","e","c","t","o","r">>,
      <<"f","a","r","i","d","a","b","a","d">>,
      <<"d","e","c","l","a","r","e","d">>,
      <<"g","r","e","a","t"," ","p","l","a","c","e">> }

\* /^page \d/i.test(text)
IsPageMarker(text) ==
    /\ startsWith(toLowerCase(text), <<"p","a","g","e"," ">>)
    /\ Len(text) >= 6
    /\ IsDigit(text[6])

isNoiseText(text) ==
    \/ Len(text) <= 1
    \/ StartsWithAny(text, NoisePrefixes)
    \/ IsPageMarker(text)
    \/ IsPeriodMarker(text)
    \/ IsTimeRange(text)
    \/ IsBareTime(text)

DefaultLabelWidth == 50
LabelTolerance == 10

\* The row and the column an item falls in (0 for none): Array.prototype.find
RowOf(item, rows) ==
    LET hits == { i \in DOMAIN rows : item.y <= rows[i].top /\ item.y > rows[i].bottom }
    IN  IF hits = {} THEN 0 ELSE Min(hits)

ColumnOf(item, cols) ==
    LET hits == { i \in DOMAIN cols :
                    item.x * ColScale >= cols[i].left /\ item.x * ColScale < cols[i].right }
    IN  IF hits = {} THEN 0 ELSE Min(hits)

\* The key of the cell of an item that falls in a row and a column
CellKey(i, rows, cols) == <<rows[RowOf(i, rows)].day, cols[ColumnOf(i, cols)].periodIndex>>

\* The cells of the items that passed the tests, in the order in which their
\* keys were first inserted in the Map
CellsOf(mapped, keys, rows, cols) ==
    Tuple([k \in DOMAIN keys |->
             [day |-> keys[k][1],
              periodIndex |-> keys[k][2],
              texts |-> SelectSeq(mapped, LAMBDA i : CellKey(i, rows, cols) = keys[k])]])

GroupCells(mapped, rows, cols) ==
    Once(Distinct([k \in DOMAIN mapped |-> CellKey(mapped[k], rows, cols)]),
         LAMBDA keys : CellsOf(mapped, keys, rows, cols))

\* Math.max(...day labels' x + (width || 50), 0)
DayLabelMaxX(its) ==
    Max({ its[k].x + (IF its[k].width # 0 THEN its[k].width ELSE DefaultLabelWidth) :
            k \in { j \in DOMAIN its : IsDayName(its[j].text) } } \cup {0})

\* The items that no test of the loop skips and that fall in a row and a column
MappedItems(its, rows, cols, dayLabelMaxX, headerY) ==
    SelectSeq(its, LAMBDA i :
        /\ ~(i.y > headerY)
        /\ ~IsDayName(i.text)
        /\ ~(i.x < dayLabelMaxX - LabelTolerance)
        /\ ~isNoiseText(i.text)
        /\ RowOf(i, rows) # 0
        /\ ColumnOf(i, cols) # 0)

mapItemsToCells(its, rows, cols) ==
    Once(DayLabelMaxX(its), LAMBDA dayLabelMaxX :
    Once(MappedItems(its, rows, cols, dayLabelMaxX,
                     IF Len(rows) > 0 THEN rows[1].top ELSE ColSentinel),
         LAMBDA mapped : GroupCells(mapped, rows, cols)))

----------------------------------------------------------------------------
(* Step 4: parsing the cells into entries *)

\* The length of the longest prefix of s whose characters all satisfy P
PrefixRun(s, P(_)) == Max({ n \in 0..Len(s) : \A k \in 1..n : P(s[k]) })

\* /^[A-Z]{2,}_[A-Za-z]+/.test(text)
IsTeacherCode(text) ==
    LET n == PrefixRun(text, IsUpper)
    IN  n >= 2 /\ n + 2 <= Len(text) /\ text[n + 1] = "_" /\ IsLetter(text[n + 2])

\* /^(SOE|CDC|HCL|VAC)_/i.test(text)
IsDeptCode(text) ==
    StartsWithAny(text, { <<"s","o","e","_">>, <<"c","d","c","_">>,
                          <<"h","c","l","_">>, <<"v","a","c","_">> })

\* /^[A-Z]{1,4}[-]?\d{1,3}$/i.test(text) && text.length <= 8
IsRoomCode(text) ==
    LET n == PrefixRun(text, IsLetter)
        d == IF n < Len(text) /\ text[n + 1] = "-" THEN n + 2 ELSE n + 1
        digits == Len(text) - d + 1
    IN  /\ n >= 1 /\ n <= 4
        /\ digits >= 1 /\ digits <= 3
        /\ \A k \in d..Len(text) : IsDigit(text[k])
        /\ Len(text) <= 8

\* /lab/i.test(text) && text.length <= 10 && /\d/.test(text)
IsLabCode(text) ==
    /\ \E i \in 1..(Len(text) - 2) : SubSeq(toLowerCase(text), i, i + 2) = <<"l","a","b">>
    /\ Len(text) <= 10
    /\ \E i \in DOMAIN text : IsDigit(text[i])

\* /^(p1|p2|...)\s*X/i.test(text): one of the prefixes, white space, then a
\* character that satisfies P
PrefixSpacesThen(text, prefixes, P(_)) ==
    \E p \in prefixes :
        /\ startsWith(toLowerCase(text), p)
        /\ LET j == SkipSpaces(text, Len(p) + 1)
           IN  j <= Len(text) /\ P(text[j])

\* /^(CSE|ECE|ME|CE|EE|IT|BT)\s*\d/i.test(text)
IsClassSection(text) ==
    PrefixSpacesThen(text, { <<"c","s","e">>, <<"e","c","e">>, <<"m","e">>, <<"c","e">>,
                             <<"e","e">>, <<"i","t">>, <<"b","t">> }, IsDigit)

\* /^group\s*\d/i.test(text)
IsGroup(text) == PrefixSpacesThen(text, { <<"g","r","o","u","p">> }, IsDigit)

\* /^G\d$/i.test(text)
IsGBlock(text) == Len(text) = 2 /\ ToLowerChar(text[1]) = "g" /\ IsDigit(text[2])

\* /^(Block|Blk)\s*[A-Z]/i.test(text)
IsBlock(text) ==
    PrefixSpacesThen(text, { <<"b","l","o","c","k">>, <<"b","l","k">> }, IsLetter)

\* /^[A-Z]{2,3}\s+\d/.test(text)
IsSectionLike(text) ==
    \E n \in {2, 3} :
        /\ n + 2 <= Len(text)
        /\ \A k \in 1..n : IsUpper(text[k])
        /\ IsSpace(text[n + 1])
        /\ LET j == SkipSpaces(text, n + 1) IN j <= Len(text) /\ IsDigit(text[j])

SubjectMaxShort == 10

\* An iteration that would take a room code for the subject once a room is set
ClassifyTextOneRoom(f, text) ==
    IF IsTeacherCode(text) \/ IsDeptCode(text)
    THEN [f EXCEPT !.teacher = IF f.teacher # <<>> THEN f.teacher \o <<",", " ">> \o text ELSE text]
    ELSE IF (IsRoomCode(text) \/ IsLabCode(text)) /\ f.room = <<>>
    THEN [f EXCEPT !.room = text]
    ELSE IF IsClassSection(text) \/ IsGroup(text)
    THEN [f EXCEPT !.className = IF f.className # <<>> THEN f.className ELSE text]
    ELSE IF IsGBlock(text) \/ IsBlock(text)
    THEN [f EXCEPT !.block = text]
    ELSE IF Len(text) > 1
    THEN IF f.subject = <<>> THEN [f EXCEPT !.subject = text]
         ELSE IF IsSectionLike(text)
         THEN [f EXCEPT !.className = IF f.className # <<>> THEN f.className ELSE text]
         ELSE IF f.className = <<>> /\ Len(text) < SubjectMaxShort
         THEN [f EXCEPT !.className = text]
         ELSE [f EXCEPT !.subject = f.subject \o <<" ">> \o text]
    ELSE f

\* One iteration of the loop of classifyTextsToEntry over the fields so far
ClassifyText(f, text) ==
    IF IsTeacherCode(text) \/ IsDeptCode(text)
    THEN [f EXCEPT !.teacher = IF f.teacher # <<>> THEN f.teacher \o <<",", " ">> \o text ELSE text]
    ELSE IF IsRoomCode(text) \/ IsLabCode(text)
    THEN [f EXCEPT !.room = IF f.room # <<>> THEN f.room ELSE text]
    ELSE IF IsClassSection(text) \/ IsGroup(text)
    THEN [f EXCEPT !.className = IF f.className # <<>> THEN f.className ELSE text]
    ELSE IF IsGBlock(text) \/ IsBlock(text)
    THEN [f EXCEPT !.block = text]
    ELSE IF Len(text) > 1
    THEN IF f.subject = <<>> THEN [f EXCEPT !.subject = text]
         ELSE IF IsSectionLike(text)
         THEN [f EXCEPT !.className = IF f.className # <<>> THEN f.className ELSE text]
         ELSE IF f.className = <<>> /\ Len(text) < SubjectMaxShort
         THEN [f EXCEPT !.className = text]
         ELSE [f EXCEPT !.subject = f.subject \o <<" ">> \o text]
    ELSE f

RECURSIVE ClassifyAll(_, _)
ClassifyAll(f, textStrings) ==
    IF textStrings = <<>> THEN f
    ELSE Once(ClassifyText(f, textStrings[1]), LAMBDA g : ClassifyAll(g, Tail(textStrings)))

\* The return of classifyTextsToEntry for the fields f: the list of the
\* entry, empty for null
EntryOfFields(f, day, col) ==
    IF f.subject = <<>> THEN <<>>
    ELSE << Entry(day, col.startTime, col.endTime, trim(f.subject), trim(f.teacher),
                  trim(f.room), trim(f.block), trim(f.className)) >>

classifyTextsToEntry(textStrings, day, col) ==
    Once(Tuple(textStrings), LAMBDA texts :
    Once(ClassifyAll([subject |-> <<>>, teacher |-> <<>>, room |-> <<>>,
                      block |-> <<>>, className |-> <<>>], texts),
         LAMBDA f : EntryOfFields(f, day, col)))

GapThreshold == 12
MinGroupSize == 2

\* The loop that cuts the sorted texts of a cell into sub-groups: the groups
\* closed so far and the current one
RECURSIVE SubGroups(_, _, _, _)
SubGroups(sortedTexts, i, done, currentGroup) ==
    IF i > Len(sortedTexts) THEN Append(done, currentGroup)
    ELSE LET gap == Abs(sortedTexts[i - 1].y - sortedTexts[i].y)
         IN  IF gap > GapThreshold /\ Len(currentGroup) >= MinGroupSize
             THEN SubGroups(sortedTexts, i + 1, Append(done, currentGroup), <<sortedTexts[i]>>)
             ELSE SubGroups(sortedTexts, i + 1, done, Append(currentGroup, sortedTexts[i]))

TextsOf(group) == Tuple([k \in DOMAIN group |-> group[k].text])

\* [...cell.texts].sort((a, b) => b.y - a.y || a.x - b.x)
SortCellTexts(texts) ==
    StableSort(texts, LAMBDA a, b : a.y > b.y \/ (a.y = b.y /\ a.x < b.x))

\* The entries of the sub-groups or, when there is none, of the flat
\* classification of the whole cell
GroupEntriesOrFlat(perGroup, sortedTexts, day, col) ==
    IF Len(perGroup) = 0
    THEN classifyTextsToEntry(TextsOf(sortedTexts), day, col)
    ELSE perGroup

ClassifyGroups(subGroups, sortedTexts, day, col) ==
    Once(Flatten([g \in DOMAIN subGroups |->
                    classifyTextsToEntry(TextsOf(subGroups[g]), day, col)]),
         LAMBDA perGroup : GroupEntriesOrFlat(perGroup, sortedTexts, day, col))

\* Only the flat classification of the whole cell
ParseSortedFlat(sortedTexts, day, col) ==
    classifyTextsToEntry(TextsOf(sortedTexts), day, col)

\* The sub-grouping and the classification of the sorted texts of a cell
ParseSorted(sortedTexts, day, col) ==
    Once(SubGroups(sortedTexts, 2, <<>>, <<sortedTexts[1]>>),
         LAMBDA subGroups : ClassifyGroups(subGroups, sortedTexts, day, col))

\* The columns of the period of the cell
ColumnsOfPeriod(cell, cols) == { i \in DOMAIN cols : cols[i].periodIndex = cell.periodIndex }

parseCellToEntries(cell, cols) ==
    IF ColumnsOfPeriod(cell, cols) = {} \/ Len(cell.texts) = 0 THEN <<>>
    ELSE Once(SortCellTexts(cell.texts), LAMBDA sortedTexts :
            ParseSorted(sortedTexts, cell.day, cols[Min(ColumnsOfPeriod(cell, cols))]))

----------------------------------------------------------------------------
(* Step 6: validateAndDeduplicate *)

ValidDaySet == Range(VALID_DAYS)

\* VALID_DAYS.find(d => d.toLowerCase().startsWith(day.toLowerCase().slice(0, 3))):
\* the indices of the days that pass the test
FuzzyDayMatches(day) ==
    { i \in DOMAIN VALID_DAYS :
        startsWith(DAY_PATTERNS[i], SliceTo(toLowerCase(day), 3)) }

\* A key that would also tell the subjects apart
slotKeyWithSubject(e) ==
    e.day \o <<"|">> \o e.start_time \o <<"|">> \o e.end_time \o <<"|">> \o e.subject

\* `${entry.day}|${entry.start_time}|${entry.end_time}`
slotKey(e) == e.day \o <<"|">> \o e.start_time \o <<"|">> \o e.end_time

\* An iteration that would skip an entry for an empty subject only
ValidateTimesEmptySubject(m) ==
    IF m.start_time = <<>> \/ m.end_time = <<>>
    THEN [kind |-> "Invalid time", entry |-> m]
    ELSE IF m.subject = <<>>
    THEN [kind |-> "no subject", entry |-> m]
    ELSE [kind |-> "grouped", entry |-> m]

\* An iteration that would group an entry whatever its subject
ValidateTimesAnySubject(m) ==
    IF m.start_time = <<>> \/ m.end_time = <<>>
    THEN [kind |-> "Invalid time", entry |-> m]
    ELSE [kind |-> "grouped", entry |-> m]

\* The rest of an iteration of the loop over entries, for the entry m whose
\* day and times have been assigned
ValidateTimes(m) ==
    IF m.start_time = <<>> \/ m.end_time = <<>>
    THEN [kind |-> "Invalid time", entry |-> m]
    ELSE IF m.subject = <<>> \/ (m.subject # NotAString /\ Len(m.subject) < 2)
    THEN [kind |-> "no subject", entry |-> m]      \* undefined < 2 is false
    ELSE [kind |-> "grouped", entry |-> m]

\* The day check of an iteration, matches being FuzzyDayMatches(e.day)
ValidateDay(e, matches) ==
    IF e.day \in ValidDaySet
    THEN ValidateTimes([e EXCEPT !.start_time = normalizeTime(e.start_time),
                                 !.end_time = normalizeTime(e.end_time)])
    ELSE IF matches = {}
    THEN [kind |-> "Invalid day", entry |-> e]
    ELSE ValidateTimes([e EXCEPT !.day = VALID_DAYS[Min(matches)],
                                 !.start_time = normalizeTime(e.start_time),
                                 !.end_time = normalizeTime(e.end_time)])

\* One iteration of the loop over entries: what happens to the entry (it threw,
\* it was dropped with or without an error, it was put in a group) and the entry
\* object after the assignments made to it.
ValidateEntry(e) ==
    IF e.day = NotAString
    THEN [kind |-> "threw", entry |-> e]      \* entry.day.toLowerCase is not a function
    ELSE ValidateDay(e, FuzzyDayMatches(e.day))

\* The strings pushed to errors: `Invalid day "${day}" for subject "${subject}"`
\* and `Invalid time for ${day} ${subject}`, kept as template and arguments.
ErrorOf(o) == [template |-> o.kind, day |-> o.entry.day, subject |-> o.entry.subject]

\* slotEntries.map(e => e[f])
FieldOf(slotEntries, f) == Tuple([i \in DOMAIN slotEntries |-> slotEntries[i][f]])

\* e.teacher.split(',').map(t => t.trim())
TeacherNames(teacher) ==
    Once(splitComma(teacher), LAMBDA names : Tuple([k \in DOMAIN names |-> trim(names[k])]))

\* A merge that would join the subjects of all the entries, equal or not
MergeEntriesAllSubjects(slotEntries) ==
    Entry(slotEntries[1].day, slotEntries[1].start_time, slotEntries[1].end_time,
          join(FieldOf(slotEntries, "subject"), <<" ", "/", " ">>),
          join(Distinct(NonEmpty(Flatten([i \in DOMAIN slotEntries |->
                                            TeacherNames(slotEntries[i].teacher)]))),
               <<",", " ">>),
          join(Distinct(NonEmpty(FieldOf(slotEntries, "room"))), <<",", " ">>),
          join(Distinct(NonEmpty(FieldOf(slotEntries, "block"))), <<",", " ">>),
          join(Distinct(NonEmpty(FieldOf(slotEntries, "class_name"))), <<",", " ">>))

\* The merge of the entries of one slot
MergeEntries(slotEntries) ==
    Entry(slotEntries[1].day, slotEntries[1].start_time, slotEntries[1].end_time,
          join(Distinct(FieldOf(slotEntries, "subject")), <<" ", "/", " ">>),
          join(Distinct(NonEmpty(Flatten([i \in DOMAIN slotEntries |->
                                            TeacherNames(slotEntries[i].teacher)]))),
               <<",", " ">>),
          join(Distinct(NonEmpty(FieldOf(slotEntries, "room"))), <<",", " ">>),
          join(Distinct(NonEmpty(FieldOf(slotEntries, "block"))), <<",", " ">>),
          join(Distinct(NonEmpty(FieldOf(slotEntries, "class_name"))), <<",", " ">>))

\* The output entry of one group
MergeSlot(slotEntries) ==
    IF Len(slotEntries) = 1 THEN slotEntries[1] ELSE MergeEntries(slotEntries)

\* The output entry of the group of key
MergeKey(grouped, key) ==
    Once(SelectSeq(grouped, LAMBDA e : slotKey(e) = key), LAMBDA slotEntries : MergeSlot(slotEntries))

\* One output entry per key, in the order in which the keys were first
\* inserted in the Map
MergeKeys(grouped, keys) ==
    Tuple([k \in DOMAIN keys |-> MergeKey(grouped, keys[k])])

\* The groups of validateAndDeduplicate and their merge
MergeGroups(grouped) ==
    Once(Distinct([i \in DOMAIN grouped |-> slotKey(grouped[i])]),
         LAMBDA keys : MergeKeys(grouped, keys))

EntriesOf(outs) == [i \in DOMAIN outs |-> outs[i].entry]
ErrorsOf(outs) == [i \in DOMAIN outs |-> ErrorOf(outs[i])]

\* What validateAndDeduplicate leaves, outs being the iterations of its loop
ValidationOutcome(list, outs) ==
    LET threwAt == { i \in DOMAIN list : outs[i].kind = "threw" }
        stop == IF threwAt = {} THEN Len(list) + 1 ELSE Min(threwAt)
    IN  [threw |-> threwAt # {},
         valid |-> IF threwAt # {} THEN <<>>
                   ELSE Once(Tuple(EntriesOf(SelectSeq(outs, LAMBDA o : o.kind = "grouped"))),
                             LAMBDA grouped : MergeGroups(grouped)),
         errors |-> IF threwAt # {} THEN <<>>
                    ELSE ErrorsOf(SelectSeq(outs,
                            LAMBDA o : o.kind \in {"Invalid day", "Invalid time"})),
         input |-> Tuple([i \in DOMAIN list |-> IF i < stop THEN outs[i].entry ELSE list[i]])]

\* validateAndDeduplicate(list): threw (a TypeError left the function), valid and
\* errors (what it returns), and input: the objects of the list it was given, as
\* the loop left them.
validateAndDeduplicate(list) ==
    Once(Tuple([i \in DOMAIN list |-> ValidateEntry(list[i])]),
         LAMBDA outs : ValidationOutcome(list, outs))

----------------------------------------------------------------------------
(* Step 5: refineWithAI.  What the awaited fetch settled with is a record   *)
(* [kind, list]: kind says how far the response got (the fetch rejected, the *)
(* status was not OK, no JSON could be read from the content, the content    *)
(* parsed to an array, or an array was found embedded in it) and list is     *)
(* that array.  A field of an element is a string, Missing or NotAString.    *)

\* A field that is absent, null or another falsy value
Missing == <<"<missing>">>

ListKinds == {"array", "embedded array"}
FailureKinds == {"network error", "status not ok", "unparseable"}

\* e.f || ''
OrEmpty(v) == IF v = Missing THEN <<>> ELSE v

\* normalizeTime(entry.start_time) throws a TypeError for a truthy value that
\* has no match method
MapEntryThrows(e) == OrEmpty(e.start_time) = NotAString

\* mapEntry of refineWithAI, for an element it does not throw on
mapEntry(e) ==
    snapToValidTimeSlot(
        Entry(OrEmpty(e.day), OrEmpty(e.start_time), OrEmpty(e.end_time), OrEmpty(e.subject),
              OrEmpty(e.teacher), OrEmpty(e.room), OrEmpty(e.block), OrEmpty(e.class_name)))

\* A gate that lets every list through
AlwaysAccept(list, entryList) == TRUE

\* result.length >= entries.length * 0.5
AcceptanceGate(list, entryList) == Len(list) * 2 >= Len(entryList)

\* What refineWithAI(entries, rawText, apiKey) returns when its fetch settled
\* with resp.  A throw of mapEntry is caught; the array then found by the
\* embedded-array search is the same array, which throws again.
refineWithAI(entryList, key, resp) ==
    IF key = <<>> THEN entryList
    ELSE IF resp.kind \notin ListKinds THEN entryList
    ELSE IF ~AcceptanceGate(resp.list, entryList) THEN entryList
    ELSE IF \E i \in DOMAIN resp.list : MapEntryThrows(resp.list[i]) THEN entryList
    ELSE Tuple([i \in DOMAIN resp.list |-> mapEntry(resp.list[i])])

----------------------------------------------------------------------------
(* Step 1 and the main pipeline *)

\* extractTextItems on a decoded document: the runs whose text is empty or
\* white space are skipped, the others trimmed (coordinates are integers, which
\* the rounding to one decimal leaves as they are)
extractTextItems(runs) ==
    Once(SelectSeq(runs, LAMBDA r : r.text # <<>> /\ trim(r.text) # <<>>), LAMBDA kept :
        Tuple([k \in DOMAIN kept |-> [kept[k] EXCEPT !.text = trim(kept[k].text)]]))

\* A result that would count the cells instead of the entries
ExtractionResultCellCount(valid, errors, cellList) ==
    [kind |-> "returned", entries |-> valid, errors |-> errors,
     rawCellCount |-> Len(cellList), finalEntryCount |-> Len(cellList)]

\* The ExtractionResult of lines 713-718
ExtractionResult(valid, errors, cellList) ==
    [kind |-> "returned", entries |-> valid, errors |-> errors,
     rawCellCount |-> Len(cellList), finalEntryCount |-> Len(valid)]

\* An abort that would be reported in a result instead of thrown
RejectionAsResult(cause) ==
    [kind |-> "returned", entries |-> <<>>, errors |-> <<cause>>,
     rawCellCount |-> 0, finalEntryCount |-> 0]

\* throw new Error(cause): the promise of extractTimetableFromPDF rejects
Rejection(cause) == [kind |-> "rejected", error |-> cause]

----------------------------------------------------------------------------
(* Strings of the bounded inputs *)

sEmpty == <<>>
sMonday == VALID_DAYS[1]
sTuesday == VALID_DAYS[2]
sMon == <<"m","o","n">>
sTue == <<"t","u","e">>
sXyz == <<"X","y","z">>
s0900 == <<"0","9",":","0","0">>
s0950 == <<"0","9",":","5","0">>
s1040 == <<"1","0",":","4","0">>
s1130 == <<"1","1",":","3","0">>
s900 == <<"9",":","0","0">>
s905 == <<"9",":","0","5">>
sNoon == <<"n","o","o","n">>
sMath == <<"M","a","t","h">>
sBio == <<"B","i","o">>
sM == <<"M">>
sTeachers == <<"S","O","E","_","A",","," ","C","D","C","_","B">>
sTeacherA == <<"S","O","E","_","A">>
sHF09 == <<"H","F","0","9">>
sLAB02 == <<"L","A","B","0","2">>
sBlockB == <<"B">>
sCSE == <<"C","S","E">>

\* The sequences over S of length at most n
SeqsUpTo(S, n) == UNION { [1..k -> S] : k \in 0..n }

None == [none |-> TRUE]

----------------------------------------------------------------------------
(* validateAndDeduplicate as a function: applied to a list, then to its output *)

MaxValLen == 2

ValEntries ==
    { Entry(d, st, s0950, su, t, IF t = sEmpty THEN sEmpty ELSE sHF09, sEmpty, sEmpty) :
        d \in {sMonday, sMon}, st \in {s0900, s900},
        su \in {sMath, sBio}, t \in {sEmpty, sTeachers} }
    \cup { Entry(sXyz, s0900, s0950, sMath, sTeacherA, sEmpty, sEmpty, sEmpty),
           Entry(sTue, s0900, sNoon, sMath, sEmpty, sEmpty, sEmpty, sEmpty),
           Entry(sMonday, s905, s900, sM, sEmpty, sEmpty, sEmpty, sEmpty),
           Entry(sEmpty, s900, s0950, sBio, sTeacherA, sEmpty, sEmpty, sEmpty),
           Entry(sMonday, s0900, s0950, sEmpty, sTeacherA, sEmpty, sEmpty, sEmpty),
           Entry(sMonday, s0900, s0950, sBio, sTeacherA, sLAB02, sBlockB, sCSE),
           Entry(sMon, s900, s0950, sMath, sEmpty, sHF09, sBlockB, sEmpty),
           Entry(sXyz, s0900, s0950, sM, sEmpty, sEmpty, sEmpty, sEmpty) }

PipeIdle ==
    /\ pc = "idle" /\ file = None /\ apiKey = sEmpty /\ items = <<>> /\ dayRows = <<>>
    /\ columns = <<>> /\ cells = <<>> /\ heuristic = <<>> /\ response = None
    /\ entries = <<>> /\ result = None

ValIdle == vpc = "idle" /\ vIn = <<>> /\ vOnce = None /\ vTwice = None

DetIdle ==
    /\ dpc = "idle" /\ dItems = <<>> /\ dPerm = <<>>
    /\ dRowsA = <<>> /\ dRowsB = <<>> /\ dColsA = <<>> /\ dColsB = <<>>

ConcIdle == inv = <<>>

FnIdle == fpc = "idle" /\ fIn = None /\ fOut = None
SrvIdle == db = None /\ answer = None /\ calls = 0

ValInit ==
    /\ vpc = "start"
    /\ vIn \in SeqsUpTo(ValEntries, MaxValLen)
    /\ vOnce = None /\ vTwice = None
    /\ PipeIdle /\ DetIdle /\ ConcIdle /\ FnIdle /\ SrvIdle

ValidateOnce ==
    /\ vpc = "start"
    /\ \E v \in {validateAndDeduplicate(vIn)} : vOnce' = v
    /\ vpc' = "once"
    /\ UNCHANGED <<vIn, vTwice, pipeVars, detVars, concVars, fnVars, srvVars>>

ValidateTwice ==
    /\ vpc = "once"
    /\ \E v \in {validateAndDeduplicate(vOnce.valid)} : vTwice' = v
    /\ vpc' = "twice"
    /\ UNCHANGED <<vIn, vOnce, pipeVars, detVars, concVars, fnVars, srvVars>>

ValNext == ValidateOnce \/ ValidateTwice

ValSpec == ValInit /\ [][ValNext]_vars

\* C8: validateAndDeduplicate is idempotent: applied to the valid list it just
\* returned, it returns the same entries in the same order with the same field
\* values, and no errors.
C8_Idempotent ==
    vpc = "twice" =>
        /\ ~vTwice.threw
        /\ vTwice.valid = vOnce.valid
        /\ vTwice.errors = <<>>

\* A first pass that dropped an entry with an error, changed a day or a time
\* and merged two entries, followed by the second pass.
C8_Witness ==
    /\ vpc = "twice"
    /\ Len(vIn) = 2
    /\ Len(vOnce.valid) = 1
    /\ vOnce.errors = <<>>
    /\ vOnce.valid[1] \notin Range(vIn)
    /\ vIn[1].start_time # vIn[2].start_time

----------------------------------------------------------------------------
(* Grid detection as a function: applied to a run list and to a permutation *)
(* of it                                                                    *)

sP1 == <<"1", ".">>
sP2 == <<"2", ".">>
sP3 == <<"3", ".">>
sP4 == <<"4", ".">>

MaxDetRuns == 3

\* Day labels (two days at one y, one day twice 5 apart), period markers (two
\* at one x) and a time string, all above the rest when no day label is there.
DetRuns ==
    { TextItem(sMonday, 10, 500, 40), TextItem(sTuesday, 10, 500, 40),
      TextItem(sMonday, 12, 495, 40), TextItem(sTuesday, 10, 400, 40),
      TextItem(sP1, 100, 600, 8), TextItem(sP2, 100, 600, 8),
      TextItem(sP3, 200, 600, 8), TextItem(s0900, 150, 600, 20) }

PermsOf(n) == { p \in [1..n -> 1..n] : \A i, j \in 1..n : p[i] = p[j] => i = j }

DetInit ==
    /\ dpc = "start"
    /\ dItems \in { l \in SeqsUpTo(DetRuns, MaxDetRuns) :
                      /\ Len(l) >= 1
                      /\ \A i, j \in DOMAIN l : l[i] = l[j] => i = j }
    /\ dPerm \in { [i \in DOMAIN dItems |-> dItems[p[i]]] : p \in PermsOf(Len(dItems)) }
    /\ dRowsA = <<>> /\ dRowsB = <<>> /\ dColsA = <<>> /\ dColsB = <<>>
    /\ PipeIdle /\ ValIdle /\ ConcIdle /\ FnIdle /\ SrvIdle

DetectFirst ==
    /\ dpc = "start"
    /\ \E rows \in {findDayRows(dItems)} :
          dRowsA' = rows /\ dColsA' = findColumnBoundaries(dItems, rows)
    /\ dpc' = "first"
    /\ UNCHANGED <<dItems, dPerm, dRowsB, dColsB, pipeVars, valVars, concVars, fnVars, srvVars>>

DetectSecond ==
    /\ dpc = "first"
    /\ \E rows \in {findDayRows(dPerm)} :
          dRowsB' = rows /\ dColsB' = findColumnBoundaries(dPerm, rows)
    /\ dpc' = "both"
    /\ UNCHANGED <<dItems, dPerm, dRowsA, dColsA, pipeVars, valVars, concVars, fnVars, srvVars>>

DetNext == DetectFirst \/ DetectSecond

DetSpec == DetInit /\ [][DetNext]_vars

\* C9: for two run lists that are permutations of each other, findDayRows
\* returns the same row bands and findColumnBoundaries the same column bands.
C9_OrderInvariant ==
    dpc = "both" => dRowsA = dRowsB /\ dColsA = dColsB

----------------------------------------------------------------------------
(* extractTimetableFromPDF on one document *)

sMathematics == <<"M","a","t","h","e","m","a","t","i","c","s">>
sPhysics == <<"P","h","y","s","i","c","s">>
sKey == <<"k","e","y">>
sBlank == <<" ">>

MaxRuns == 2
MaxResp == 2

\* Day labels for Monday and Tuesday and the markers of periods 1 to 3
Layout ==
    << TextItem(sMonday, 10, 500, 40), TextItem(sTuesday, 10, 400, 40),
       TextItem(sP1, 100, 600, 8), TextItem(sP2, 200, 600, 8), TextItem(sP3, 300, 600, 8) >>

\* Runs below the header: a subject and a room in Monday/period 2, a subject in
\* Tuesday/period 1, a teacher code alone in Tuesday/period 3
BodyRuns ==
    << TextItem(sMathematics, 205, 480, 50), TextItem(sHF09, 205, 470, 20),
       TextItem(sPhysics, 105, 380, 30), TextItem(sTeacherA, 305, 380, 30) >>

\* The subsequences of list with at most n elements
SubSeqsUpTo(list, n) ==
    { SelectSeq([i \in DOMAIN list |-> <<i, list[i]>>], LAMBDA pr : pr[1] \in chosen) :
        chosen \in { c \in SUBSET DOMAIN list : Cardinality(c) <= n } }

Bodies == { [k \in DOMAIN b |-> b[k][2]] : b \in SubSeqsUpTo(BodyRuns, MaxRuns) }

\* A grid whose Monday/period 2 cell holds two classes, 20 apart in y
TwoClassGrid ==
    Layout \o << BodyRuns[1], BodyRuns[2], TextItem(sPhysics, 205, 450, 30), BodyRuns[3] >>

\* A grid whose header holds the markers of periods 2 to 4, with one run in
\* Monday/period 3
LateGrid ==
    << TextItem(sMonday, 10, 500, 40), TextItem(sTuesday, 10, 400, 40),
       TextItem(sP2, 100, 600, 8), TextItem(sP3, 200, 600, 8), TextItem(sP4, 300, 600, 8),
       BodyRuns[1] >>

\* The documents: one that cannot be decoded, one without runs, one whose only
\* run is white space, one without day labels, the grid with two classes in a
\* cell, the grid of periods 2 to 4, and the grids with at most MaxRuns runs
\* below the header
Files ==
    { [decodes |-> FALSE, runs |-> <<>>],
      [decodes |-> TRUE, runs |-> LateGrid],
      [decodes |-> TRUE, runs |-> <<>>],
      [decodes |-> TRUE, runs |-> << TextItem(sBlank, 10, 500, 5) >>],
      [decodes |-> TRUE, runs |-> << TextItem(sP1, 100, 600, 8), BodyRuns[1] >>],
      [decodes |-> TRUE, runs |-> TwoClassGrid] }
    \cup { [decodes |-> TRUE, runs |-> Layout \o b] : b \in Bodies }

\* Elements the service may put in its array
ServiceEntry(day, start, end, subject) ==
    Entry(day, start, end, subject, Missing, Missing, Missing, Missing)

ServiceEntries ==
    { ServiceEntry(sMonday, s0900, s0950, sMath),
      ServiceEntry(sMonday, s0900, s0950, sBio),
      ServiceEntry(sTue, s0900, s0950, sBio),
      ServiceEntry(Missing, s1040, s1130, sMath),
      ServiceEntry(NotAString, s0900, s0950, sMath),
      ServiceEntry(sXyz, s0900, s0950, sMath),
      ServiceEntry(sMonday, s905, s900, sMath),
      ServiceEntry(sMonday, Missing, s0950, sMath),
      ServiceEntry(sMonday, NotAString, s0950, sMath),
      ServiceEntry(sMonday, sNoon, s0950, sMath),
      ServiceEntry(sMonday, s1040, Missing, sBio),
      ServiceEntry(sMonday, s0900, s0950, sM),
      ServiceEntry(sMonday, s0900, s0950, Missing),
      ServiceEntry(sMonday, s1040, s1130, NotAString) }

\* What the service may do to the times of an entry it repeats
Retimings(e) ==
    { e,
      [e EXCEPT !.start_time = s1040],
      [e EXCEPT !.start_time = s905],
      [e EXCEPT !.end_time = sNoon],
      [e EXCEPT !.start_time = Missing] }

\* The lists that repeat entryList with only times changed
Retimed(entryList) ==
    { l \in [DOMAIN entryList -> UNION { Retimings(entryList[i]) : i \in DOMAIN entryList }] :
        \A i \in DOMAIN entryList : l[i] \in Retimings(entryList[i]) }

Responses(entryList) ==
    { [kind |-> k, list |-> <<>>] : k \in FailureKinds }
    \cup { [kind |-> k, list |-> l] :
             k \in ListKinds,
             l \in SeqsUpTo(ServiceEntries, MaxResp) \cup Retimed(entryList) }

Init ==
    /\ pc = "start"
    /\ apiKey \in {sEmpty, sKey}
    /\ file \in Files
    /\ items = <<>> /\ dayRows = <<>> /\ columns = <<>> /\ cells = <<>>
    /\ heuristic = <<>> /\ entries = <<>>
    /\ response = None /\ result = None
    /\ ValIdle /\ DetIdle /\ ConcIdle /\ FnIdle /\ SrvIdle


\* getDocument rejects: the document cannot be decoded
ExtractFails ==
    /\ pc = "start"
    /\ ~file.decodes
    /\ result' = Rejection("document cannot be decoded")
    /\ pc' = "rejected"
    /\ UNCHANGED <<file, apiKey, items, dayRows, columns, cells, heuristic, response, entries>>
    /\ UNCHANGED <<valVars, detVars, concVars, fnVars, srvVars>>

\* Step 1, no text item: line 675
NoTextFound ==
    /\ pc = "start"
    /\ file.decodes
    /\ extractTextItems(file.runs) = <<>>
    /\ items' = <<>>
    /\ result' = Rejection("No text found in PDF")
    /\ pc' = "rejected"
    /\ UNCHANGED <<file, apiKey, dayRows, columns, cells, heuristic, response, entries>>
    /\ UNCHANGED <<valVars, detVars, concVars, fnVars, srvVars>>

\* Step 1: line 674
ExtractText ==
    /\ pc = "start"
    /\ file.decodes
    /\ \E extracted \in {extractTextItems(file.runs)} :
          extracted # <<>> /\ items' = extracted
    /\ pc' = "extracted"
    /\ UNCHANGED <<file, apiKey, dayRows, columns, cells, heuristic, response, entries, result>>
    /\ UNCHANGED <<valVars, detVars, concVars, fnVars, srvVars>>

\* Step 2, no day row: line 683
NoDayLabels ==
    /\ pc = "extracted"
    /\ findDayRows(items) = <<>>
    /\ result' = Rejection("Could not find day labels")
    /\ pc' = "rejected"
    /\ UNCHANGED <<file, apiKey, items, dayRows, columns, cells, heuristic, response, entries>>
    /\ UNCHANGED <<valVars, detVars, concVars, fnVars, srvVars>>

\* Steps 3 and 4 on the rows and columns found
ParseCells(rows, cols, cs) ==
    /\ dayRows' = rows
    /\ columns' = cols
    /\ cells' = cs
    /\ \E parsed \in {Flatten([i \in DOMAIN cs |-> parseCellToEntries(cs[i], cols)])} :
          heuristic' = parsed /\ entries' = parsed

MapCells(rows, cols) ==
    \E cs \in {mapItemsToCells(items, rows, cols)} : ParseCells(rows, cols, cs)

DetectColumns(rows) ==
    /\ rows # <<>>
    /\ \E cols \in {findColumnBoundaries(items, rows)} : MapCells(rows, cols)

\* Steps 2 to 4, and the fetch of step 5 when there is a key: lines 682-703
ParseGrid ==
    /\ pc = "extracted"
    /\ \E rows \in {findDayRows(items)} : DetectColumns(rows)
    /\ pc' = IF apiKey # <<>> THEN "awaiting" ELSE "validate"
    /\ UNCHANGED <<file, apiKey, items, response, result>>
    /\ UNCHANGED <<valVars, detVars, concVars, fnVars, srvVars>>

\* The service (or the network) settles the fetch
ServiceResponds ==
    /\ pc = "awaiting"
    /\ \E r \in Responses(heuristic) : response' = r
    /\ pc' = "settled"
    /\ UNCHANGED <<file, apiKey, items, dayRows, columns, cells, heuristic, entries, result>>
    /\ UNCHANGED <<valVars, detVars, concVars, fnVars, srvVars>>

\* The rest of refineWithAI: line 703
Refine ==
    /\ pc = "settled"
    /\ entries' = refineWithAI(entries, apiKey, response)
    /\ pc' = "validate"
    /\ UNCHANGED <<file, apiKey, items, dayRows, columns, cells, heuristic, response, result>>
    /\ UNCHANGED <<valVars, detVars, concVars, fnVars, srvVars>>

\* A TypeError leaves validateAndDeduplicate
Throws(v) ==
    /\ v.threw
    /\ entries' = v.input
    /\ result' = Rejection("TypeError")

\* Step 6 throws: the promise of extractTimetableFromPDF rejects
ValidateThrows ==
    /\ pc = "validate"
    /\ \E v \in {validateAndDeduplicate(entries)} : Throws(v)
    /\ pc' = "rejected"
    /\ UNCHANGED <<file, apiKey, items, dayRows, columns, cells, heuristic, response>>
    /\ UNCHANGED <<valVars, detVars, concVars, fnVars, srvVars>>

\* validateAndDeduplicate returns v: lines 708-718
Returns(v) ==
    /\ ~v.threw
    /\ entries' = v.input
    /\ result' = ExtractionResult(v.valid, v.errors, cells)

\* Step 6 and the return: lines 708-718
Validate ==
    /\ pc = "validate"
    /\ \E v \in {validateAndDeduplicate(entries)} : Returns(v)
    /\ pc' = "done"
    /\ UNCHANGED <<file, apiKey, items, dayRows, columns, cells, heuristic, response>>
    /\ UNCHANGED <<valVars, detVars, concVars, fnVars, srvVars>>

\* The steps the pipeline takes by itself
PipelineStep ==
    \/ ExtractFails
    \/ NoTextFound
    \/ ExtractText
    \/ NoDayLabels
    \/ ParseGrid
    \/ Refine
    \/ ValidateThrows
    \/ Validate

Next == PipelineStep \/ ServiceResponds

Spec == Init /\ [][Next]_vars

\* The event loop runs every continuation that is ready; nothing makes the
\* service answer.
LiveSpec == Init /\ [][Next]_vars /\ WF_vars(PipelineStep)

----------------------------------------------------------------------------
(* Properties of extractTimetableFromPDF *)

\* The (start, end) pairs of the time-slot table
SlotPairs == { <<DEFAULT_TIME_SLOTS[i].start, DEFAULT_TIME_SLOTS[i].end>> : i \in DOMAIN DEFAULT_TIME_SLOTS }

\* The service's list went through the gate and through mapEntry
Accepted ==
    /\ apiKey # <<>>
    /\ response # None
    /\ response.kind \in ListKinds
    /\ Len(response.list) * 2 >= Len(heuristic)
    /\ \A i \in DOMAIN response.list : response.list[i].start_time # NotAString

\* A field of an element of the service's list that is absent or not a string
BadField(v) == v = Missing \/ v = NotAString

\* The ExtractionResult of the same document with no credential configured
NoKeyResult(v) == [kind |-> "returned", entries |-> v.valid, errors |-> v.errors,
                   rawCellCount |-> Len(cells), finalEntryCount |-> Len(v.valid)]

\* C1: in every ExtractionResult returned, each entry's (start_time, end_time)
\* is one of the (start, end) pairs of the time-slot table, also when the
\* refinement was accepted and the service returned other times.
C1_TimesCanonical ==
    pc = "done" =>
        \A i \in DOMAIN result.entries :
            <<result.entries[i].start_time, result.entries[i].end_time>> \in SlotPairs

\* An accepted response with start_time 9:05 and end_time 9:00, returned as
\* the slot 09:00-09:50
C1_Witness ==
    /\ pc = "done"
    /\ Accepted
    /\ \E i \in DOMAIN response.list :
          /\ response.list[i].start_time = s905
          /\ response.list[i].end_time = s900
    /\ \E i \in DOMAIN result.entries :
          /\ result.entries[i].start_time = s0900
          /\ result.entries[i].end_time = s0950
          /\ result.entries[i].subject = sMath

\* list repeats entryList with at most start_time and end_time changed, to
\* other strings
OnlyTimesChanged(list, entryList) ==
    /\ Len(list) = Len(entryList)
    /\ \A i \in DOMAIN list :
          /\ ~BadField(list[i].start_time)
          /\ ~BadField(list[i].end_time)
          /\ list[i] = [entryList[i] EXCEPT !.start_time = list[i].start_time,
                                            !.end_time = list[i].end_time]

\* C2: if an accepted response repeats the heuristic entries with only their
\* start_time or end_time changed, the ExtractionResult returned is the one
\* obtained with refinement disabled.
C2_TimesNeverAltered ==
    (pc = "done" /\ Accepted /\ OnlyTimesChanged(response.list, heuristic)) =>
        result = NoKeyResult(validateAndDeduplicate(heuristic))

\* C3: in every ExtractionResult returned, no two elements of entries have the
\* same (day, start_time, end_time).
C3_UniqueSlots ==
    pc = "done" =>
        \A i, j \in DOMAIN result.entries :
            (/\ result.entries[i].day = result.entries[j].day
             /\ result.entries[i].start_time = result.entries[j].start_time
             /\ result.entries[i].end_time = result.entries[j].end_time) => i = j

\* Without refinement, the two classes of one cell returned as one entry,
\* beside the entry of another cell
C3_Witness ==
    /\ pc = "done"
    /\ apiKey = <<>>
    /\ file.runs = TwoClassGrid
    /\ Len(heuristic) = 3
    /\ Len(result.entries) = 2
    /\ result.entries[1].subject = sMathematics \o <<" ", "/", " ">> \o sPhysics

\* C4: for every ExtractionResult returned, finalEntryCount is the number of
\* elements of entries.
C4_FinalCount ==
    pc = "done" => result.finalEntryCount = Len(result.entries)

\* A result with entries, and with more cells than entries
C4_Witness ==
    /\ pc = "done"
    /\ Len(result.entries) >= 1
    /\ result.rawCellCount > Len(result.entries)

\* The refinement failed: the fetch rejected, the status was not OK, the
\* content could not be parsed, an element lacks day, times or subject or
\* has one of the wrong type, or the list is too short for the gate
RefinementFailed ==
    /\ apiKey # <<>>
    /\ response # None
    /\ \/ response.kind \in FailureKinds
       \/ Len(response.list) * 2 < Len(heuristic)
       \/ \E i \in DOMAIN response.list :
             \/ BadField(response.list[i].day)
             \/ BadField(response.list[i].start_time)
             \/ BadField(response.list[i].end_time)
             \/ BadField(response.list[i].subject)

\* C5: whenever the refinement fails, the pipeline does not reject, adds
\* nothing to errors and returns the ExtractionResult of a run of the same
\* document with no credential.
C5_FailureAbsorbed ==
    (pc \in {"done", "rejected"} /\ RefinementFailed) =>
        result = NoKeyResult(validateAndDeduplicate(heuristic))

\* C6: refineWithAI returns the service's list only if it has at least half as
\* many entries as the heuristic list; in every other case it returns the
\* heuristic list, same entries, same order, same fields.
C6_GateOrHeuristic ==
    (pc = "validate" /\ apiKey # <<>>) =>
        \/ entries = heuristic
        \/ /\ response.kind \in ListKinds
           /\ Len(response.list) * 2 >= Len(heuristic)
           /\ entries = [i \in DOMAIN response.list |-> mapEntry(response.list[i])]

\* A list of 2 entries accepted in place of 3 heuristic entries
C6_Witness ==
    /\ pc = "validate"
    /\ apiKey # <<>>
    /\ Len(heuristic) = 3
    /\ Len(response.list) = 2
    /\ entries # heuristic
    /\ entries[1].subject = response.list[1].subject

\* C7: if the service never responds, the pipeline still returns an
\* ExtractionResult built from the heuristic entries: once the request is
\* sent, either the service responds or the pipeline returns that result.
C7_TimeoutReturns ==
    (pc = "awaiting") ~>
        (pc = "settled" \/ (pc = "done" /\ result = NoKeyResult(validateAndDeduplicate(heuristic))))

\* C10: whenever an ExtractionResult is returned for a document that yielded
\* at least one text run, entries and errors are not both empty.
C10_NeverUnexplainedEmpty ==
    (pc = "done" /\ Len(items) >= 1) =>
        (result.entries # <<>> \/ result.errors # <<>>)


\* No extracted run has a text that is, in lower case, one of DAY_PATTERNS
NoDayName == \A i \in DOMAIN items : toLowerCase(items[i].text) \notin Range(DAY_PATTERNS)

\* C11: if extraction yields zero text runs, or no run's text is a day name,
\* the pipeline rejects: it never goes on to the grid stages, the service is
\* never contacted, and no ExtractionResult is returned.
C11_AbortsWithoutDays ==
    (pc # "start" /\ file.decodes /\ NoDayName) =>
        /\ pc \in {"extracted", "rejected"}
        /\ response = None
        /\ cells = <<>> /\ heuristic = <<>>
        /\ result = None \/ result.kind = "rejected"
        /\ pc = "rejected" => result.kind = "rejected"

\* A document with runs but no day label, a key configured: rejected with the
\* day-label cause, the service not contacted
C11_Witness ==
    /\ pc = "rejected"
    /\ apiKey # <<>>
    /\ Len(items) = 2
    /\ NoDayName
    /\ response = None
    /\ result = Rejection("Could not find day labels")

\* A document without any run, rejected with the no-text cause
C11_WitnessNoText ==
    /\ pc = "rejected"
    /\ file.decodes
    /\ items = <<>>
    /\ result = Rejection("No text found in PDF")


\* C13: every entry of a returned ExtractionResult has a non-empty subject,
\* whether it came from the heuristic classifier, from an accepted response or
\* from a merge.
C13_SubjectNonEmpty ==
    pc = "done" =>
        \A i \in DOMAIN result.entries : result.entries[i].subject # <<>>

\* An accepted response of two elements, one without a subject: the result
\* holds the other one only
C13_Witness ==
    /\ pc = "done"
    /\ Accepted
    /\ Len(response.list) = 2
    /\ \E i \in DOMAIN response.list : response.list[i].subject = Missing
    /\ \E i \in DOMAIN entries : entries[i].subject = <<>>
    /\ Len(result.entries) = 1
    /\ result.errors = <<>>

\* The runs of the document that are day labels, period markers, and the others
LabelRuns == SelectSeq(file.runs, LAMBDA r : IsDayName(r.text))
MarkerRuns == SelectSeq(file.runs, LAMBDA r : IsPeriodMarker(r.text))
BodyOfFile == SelectSeq(file.runs, LAMBDA r : ~IsDayName(r.text) /\ ~IsPeriodMarker(r.text))

\* A token of two characters or more that no teacher, room, lab, class, group
\* or block pattern matches
PlainSubject(text) ==
    /\ Len(text) > 1
    /\ ~(IsTeacherCode(text) \/ IsDeptCode(text) \/ IsRoomCode(text) \/ IsLabCode(text))
    /\ ~(IsClassSection(text) \/ IsGroup(text) \/ IsGBlock(text) \/ IsBlock(text))

\* The day label whose row band holds the run t: the lowest label that is not
\* more than the padding of 35 below t
LabelAbove(t) ==
    CHOOSE l \in Range(LabelRuns) :
        /\ t.y <= l.y + 35
        /\ \A m \in Range(LabelRuns) : t.y <= m.y + 35 => l.y <= m.y

\* The period marker whose column holds the run t: the rightmost marker that is
\* not more than 8 to the right of t
MarkerLeftOf(t) ==
    CHOOSE h \in Range(MarkerRuns) :
        /\ h.x - 8 <= t.x
        /\ \A m \in Range(MarkerRuns) : m.x - 8 <= t.x => m.x <= h.x

\* The document holds, besides day labels and at least three period markers
\* in the header, one run only: a plain token in a row band and a column
OneTokenDocument ==
    /\ file # None /\ file.decodes
    /\ Len(BodyOfFile) = 1
    /\ PlainSubject(BodyOfFile[1].text)
    /\ Len(MarkerRuns) >= 3
    /\ \E l \in Range(LabelRuns) : BodyOfFile[1].y <= l.y + 35
    /\ \E h \in Range(MarkerRuns) : h.x - 8 <= BodyOfFile[1].x

\* The entry the claim expects for the token t
EntryOfToken(t) ==
    Entry(VALID_DAYS[DayIndex(LabelAbove(t).text)],
          DEFAULT_TIME_SLOTS[PeriodNumber(MarkerLeftOf(t).text)].start,
          DEFAULT_TIME_SLOTS[PeriodNumber(MarkerLeftOf(t).text)].end,
          t.text, <<>>, <<>>, <<>>, <<>>)

\* C17: a document whose only populated cell lies in the row band of day d and
\* the column of period marker N, and holds a single token that matches no
\* teacher, room, class or block pattern, gives exactly one entry: day d, the
\* start and end of table entry N-1, the token as subject and the other fields
\* empty.  The grid stages build that entry, and it is the result when no
\* refinement is configured.
C17_SingleTokenEntry ==
    OneTokenDocument =>
        /\ pc \in {"awaiting", "settled", "validate", "done"} =>
              heuristic = << EntryOfToken(BodyOfFile[1]) >>
        /\ (pc = "done" /\ apiKey = <<>>) =>
              /\ result.entries = << EntryOfToken(BodyOfFile[1]) >>
              /\ result.errors = <<>>

\* Mathematics alone under Monday and the marker of period 3, the second of the
\* header: returned as Monday 09:50-10:40
C17_Witness ==
    /\ pc = "done"
    /\ apiKey = <<>>
    /\ OneTokenDocument
    /\ PeriodNumber(MarkerLeftOf(BodyOfFile[1]).text) = 3
    /\ result.entries = << Entry(sMonday, DEFAULT_TIME_SLOTS[3].start, s1040, sMathematics,
                                 sEmpty, sEmpty, sEmpty, sEmpty) >>

\* The same token under Monday and period 2 of a header of periods 1 to 3:
\* returned as Monday 09:00-09:50
C17_WitnessPeriod2 ==
    /\ pc = "done"
    /\ apiKey = <<>>
    /\ OneTokenDocument
    /\ result.entries = << Entry(sMonday, s0900, s0950, sMathematics,
                                 sEmpty, sEmpty, sEmpty, sEmpty) >>

\* C27: no stage changes in place a structure produced by an earlier stage:
\* when validateAndDeduplicate returns, every entry object of the list it was
\* given (heuristic or produced by refinement) still has the day, start_time
\* and end_time it had before the call, and the run list, the bands and the
\* cells are unchanged by every later stage.
C27_NoInPlaceChange ==
    [][/\ (pc = "validate" /\ pc' = "done") =>
              \A i \in DOMAIN entries :
                  /\ entries'[i].day = entries[i].day
                  /\ entries'[i].start_time = entries[i].start_time
                  /\ entries'[i].end_time = entries[i].end_time
       /\ pc # "start" => items' = items
       /\ pc \notin {"start", "extracted"} =>
              dayRows' = dayRows /\ columns' = columns /\ cells' = cells]_vars

----------------------------------------------------------------------------
(* Properties of validateAndDeduplicate *)

\* The reasons for which an entry is dropped
InvalidDay(e) == e.day \notin ValidDaySet /\ FuzzyDayMatches(e.day) = {}
UnparseableTime(e) == normalizeTime(e.start_time) = <<>> \/ normalizeTime(e.end_time) = <<>>
EmptySubject(e) == e.subject = <<>>

\* C12: validateAndDeduplicate appends a string to errors for every entry it
\* drops because of an invalid day, an unparseable time or an empty subject:
\* errors has one string per such entry of the list.
C12_EveryDropReported ==
    vpc = "once" =>
        Len(vOnce.errors) =
            Cardinality({ i \in DOMAIN vIn :
                            InvalidDay(vIn[i]) \/ UnparseableTime(vIn[i]) \/ EmptySubject(vIn[i]) })


\* The entries of list that validation keeps: list holds the entries as the
\* loop left them, day corrected and times normalized
Survivors(list) ==
    SelectSeq(list, LAMBDA e : /\ e.day \in ValidDaySet
                               /\ e.start_time # <<>> /\ e.end_time # <<>>
                               /\ Len(e.subject) >= 2)

SameSlot(a, b) == a.day = b.day /\ a.start_time = b.start_time /\ a.end_time = b.end_time

\* The members of the key of o, in the order of the list
Members(list, o) == SelectSeq(Survivors(list), LAMBDA e : SameSlot(e, o))

\* The values of a member field, without the empty ones and without repeats
DistinctValues(members, f) == Distinct(NonEmpty([i \in DOMAIN members |-> members[i][f]]))

\* The comma-split, trimmed teacher names of all the members, without repeats
DistinctTeachers(members) ==
    Distinct(NonEmpty(Flatten([i \in DOMAIN members |->
        [k \in DOMAIN splitComma(members[i].teacher) |-> trim(splitComma(members[i].teacher)[k])]])))

\* o is what the claim says of the output entry of its key
MergedAsStated(o, members) ==
    IF Len(members) = 1 THEN o = members[1]
    ELSE /\ o.subject = join(DistinctValues(members, "subject"), <<" ", "/", " ">>)
         /\ o.teacher = join(DistinctTeachers(members), <<",", " ">>)
         /\ o.room = join(DistinctValues(members, "room"), <<",", " ">>)
         /\ o.block = join(DistinctValues(members, "block"), <<",", " ">>)
         /\ o.class_name = join(DistinctValues(members, "class_name"), <<",", " ">>)

\* C15: when several surviving entries share one (day, start_time, end_time)
\* key, validation outputs exactly one entry for that key: its subject is the
\* distinct member subjects joined by " / ", its teacher the distinct
\* comma-split teacher names of all members rejoined, its room, block and
\* class_name the distinct non-empty member values comma-joined; a key with a
\* single entry passes through unchanged.
C15_MergePerKey ==
    vpc = "once" =>
        /\ \A i \in DOMAIN vOnce.valid :
              MergedAsStated(vOnce.valid[i], Members(vOnce.input, vOnce.valid[i]))
        /\ \A j \in DOMAIN vOnce.input :
              vOnce.input[j] \in Range(Survivors(vOnce.input)) =>
                  Cardinality({ i \in DOMAIN vOnce.valid :
                                  SameSlot(vOnce.valid[i], vOnce.input[j]) }) = 1

\* Two entries of the same slot, both with subject Bio, one teaching SOE_A and
\* CDC_B in HF09 and the other SOE_A in LAB02 of block B for CSE: one entry out
C15_Witness ==
    /\ vpc = "once"
    /\ Len(vIn) = 2
    /\ vIn[1].subject = sBio /\ vIn[2].subject = sBio
    /\ vIn[1].teacher = sTeachers /\ vIn[2].teacher = sTeacherA
    /\ vIn[1].room = sHF09 /\ vIn[2].room = sLAB02
    /\ Len(vOnce.valid) = 1
    /\ vOnce.valid[1].subject = sBio
    /\ vOnce.valid[1].teacher = sTeachers
    /\ vOnce.valid[1].room = sHF09 \o <<",", " ">> \o sLAB02
    /\ vOnce.valid[1].block = sBlockB
    /\ vOnce.valid[1].class_name = sCSE

\* The canonical days whose first three lower-case characters are the first
\* three lower-case characters of day
SameFirstThree(day) ==
    { c \in ValidDaySet : SliceTo(toLowerCase(c), 3) = SliceTo(toLowerCase(day), 3) }

\* The invalid-day errors reported for the day string day
InvalidDayErrors(day) ==
    SelectSeq(vOnce.errors, LAMBDA err : err.template = "Invalid day" /\ err.day = day)

\* C19: for every day string of an entry, of any length including empty and
\* shorter than three characters: if it is not canonical, validation maps it
\* to the canonical day whose first three lower-case characters equal the
\* first three lower-case characters of the string, and if no canonical day
\* shares those three characters the entry is dropped and an invalid-day
\* error is reported.
C19_DayByFirstThree ==
    vpc = "once" =>
        \A i \in DOMAIN vIn :
            vIn[i].day \notin ValidDaySet =>
                IF SameFirstThree(vIn[i].day) # {}
                THEN vOnce.input[i].day \in SameFirstThree(vIn[i].day)
                ELSE /\ vOnce.input[i].day = vIn[i].day
                     /\ InvalidDayErrors(vIn[i].day) # <<>>

\* A subject that is empty or a single character
ShortSubject(e) == Len(e.subject) <= 1

\* The day of the entry passes the day check, as it is or corrected
DayPasses(e) == e.day \in ValidDaySet \/ FuzzyDayMatches(e.day) # {}

\* C20, as stated: validation drops every entry whose subject is empty or a
\* single character and adds no string to errors for it: the list without
\* these entries gives the same valid entries and the same errors.
C20_ShortSubjectSilent ==
    vpc = "once" =>
        \E without \in {validateAndDeduplicate(SelectSeq(vIn, LAMBDA e : ~ShortSubject(e)))} :
            vOnce.valid = without.valid /\ vOnce.errors = without.errors

\* C20, amended: validation drops every entry whose subject is empty or a
\* single character, and adds no string to errors for it when its day passes
\* the day check and its times parse: the list without the latter entries
\* gives the same valid entries and the same errors, and no valid entry has a
\* subject of less than two characters.
C20_ShortSubjectSilentIfTimed ==
    vpc = "once" =>
        /\ \A k \in DOMAIN vOnce.valid : ~ShortSubject(vOnce.valid[k])
        /\ \E without \in {validateAndDeduplicate(SelectSeq(vIn, LAMBDA e :
                               ~(ShortSubject(e) /\ DayPasses(e) /\ ~UnparseableTime(e))))} :
              vOnce.valid = without.valid /\ vOnce.errors = without.errors

\* A subject of one character with a day and times that pass, next to an entry
\* that is kept: one valid entry, no error
C20_Witness ==
    /\ vpc = "once"
    /\ Len(vIn) = 2
    /\ vIn[1].subject = sM /\ DayPasses(vIn[1]) /\ ~UnparseableTime(vIn[1])
    /\ vIn[2].subject = sMath
    /\ Len(vOnce.valid) = 1
    /\ vOnce.valid[1].subject = sMath
    /\ vOnce.errors = <<>>

----------------------------------------------------------------------------
(* Two invocations of extractTimetableFromPDF in flight.  Each invocation    *)
(* has its own file, openRouterApiKey, items, dayRows, columns, cells,       *)
(* entries and fetch; the module-level tables are constants.  A continuation *)
(* runs to its next await without interruption.                              *)

Invocations == 1..2

\* The documents given to the two invocations
ConcFiles ==
    { [decodes |-> TRUE, runs |-> Layout \o << BodyRuns[1], BodyRuns[2] >>],
      [decodes |-> TRUE, runs |-> Layout \o << BodyRuns[3] >>],
      [decodes |-> TRUE, runs |-> << TextItem(sP1, 100, 600, 8), BodyRuns[1] >>] }

\* What the service may answer to an invocation
ConcResponses(entryList) ==
    { [kind |-> "network error", list |-> <<>>],
      [kind |-> "array", list |-> <<>>],
      [kind |-> "array", list |-> << ServiceEntry(sTue, s905, s900, sBio) >>],
      [kind |-> "array", list |-> << ServiceEntry(NotAString, s0900, s0950, sMath) >>] }
    \cup { [kind |-> "array", list |-> l] : l \in Retimed(entryList) }

\* The locals of an invocation that has just been called
Called(f, key) ==
    [pc |-> "start", file |-> f, apiKey |-> key, items |-> <<>>, dayRows |-> <<>>,
     columns |-> <<>>, cells |-> <<>>, entries |-> <<>>, response |-> None,
     result |-> None, overlapped |-> FALSE]

ConcInit ==
    /\ inv \in [Invocations -> { Called(f, key) : f \in ConcFiles, key \in {sEmpty, sKey} }]
    /\ PipeIdle /\ ValIdle /\ DetIdle /\ FnIdle /\ SrvIdle

\* One list of entries for all the invocations
FirstEntries(i) == inv[1].entries

\* The variable `entries` of invocation i: line 696
OwnEntries(i) == inv[i].entries

\* Step 1 of invocation i: lines 674-677
CExtract(i) ==
    /\ inv[i].pc = "start"
    /\ \E extracted \in {extractTextItems(inv[i].file.runs)} :
          inv' = [inv EXCEPT ![i].items = extracted,
                             ![i].pc = IF extracted = <<>> THEN "rejected" ELSE "extracted",
                             ![i].result = IF extracted = <<>>
                                           THEN Rejection("No text found in PDF")
                                           ELSE None]
    /\ UNCHANGED <<pipeVars, valVars, detVars, fnVars, srvVars>>

\* The locals of invocation i after steps 2 to 4
CGrid(i, rows, cols, cs) ==
    \E parsed \in {Flatten([k \in DOMAIN cs |-> parseCellToEntries(cs[k], cols)])} :
        inv' = [inv EXCEPT ![i].dayRows = rows, ![i].columns = cols, ![i].cells = cs,
                           ![i].entries = parsed,
                           ![i].pc = IF inv[i].apiKey # <<>> THEN "awaiting" ELSE "validate"]

CColumns(i, rows) ==
    \E cols \in {findColumnBoundaries(inv[i].items, rows)} :
        \E cs \in {mapItemsToCells(inv[i].items, rows, cols)} : CGrid(i, rows, cols, cs)

\* Steps 2 to 4 of invocation i, and its fetch when it has a key: lines 682-703
CParse(i) ==
    /\ inv[i].pc = "extracted"
    /\ \E rows \in {findDayRows(inv[i].items)} :
          IF rows = <<>>
          THEN inv' = [inv EXCEPT ![i].pc = "rejected",
                                  ![i].result = Rejection("Could not find day labels")]
          ELSE CColumns(i, rows)
    /\ UNCHANGED <<pipeVars, valVars, detVars, fnVars, srvVars>>

\* The fetch of invocation i settles; overlapped records that the other
\* invocation was waiting for its own fetch or about to resume from it
CResponds(i) ==
    /\ inv[i].pc = "awaiting"
    /\ \E r \in ConcResponses(OwnEntries(i)) :
          inv' = [inv EXCEPT ![i].response = r, ![i].pc = "settled",
                             ![i].overlapped =
                                 \E j \in Invocations \ {i} : inv[j].pc \in {"awaiting", "settled"}]
    /\ UNCHANGED <<pipeVars, valVars, detVars, fnVars, srvVars>>

\* The rest of refineWithAI for invocation i
CRefine(i) ==
    /\ inv[i].pc = "settled"
    /\ \E refined \in {refineWithAI(OwnEntries(i), inv[i].apiKey, inv[i].response)} :
          inv' = [inv EXCEPT ![i].entries = refined, ![i].pc = "validate"]
    /\ UNCHANGED <<pipeVars, valVars, detVars, fnVars, srvVars>>

\* Step 6 and the return of invocation i: lines 708-718
CValidate(i) ==
    /\ inv[i].pc = "validate"
    /\ \E v \in {validateAndDeduplicate(OwnEntries(i))} :
          inv' = [inv EXCEPT ![i].entries = v.input,
                             ![i].pc = IF v.threw THEN "rejected" ELSE "done",
                             ![i].result = IF v.threw THEN Rejection("TypeError")
                                           ELSE ExtractionResult(v.valid, v.errors, inv[i].cells)]
    /\ UNCHANGED <<pipeVars, valVars, detVars, fnVars, srvVars>>

ConcNext ==
    \E i \in Invocations :
        CExtract(i) \/ CParse(i) \/ CResponds(i) \/ CRefine(i) \/ CValidate(i)

ConcSpec == ConcInit /\ [][ConcNext]_vars

\* extractTimetableFromPDF(f, key) run alone, its fetch settling with resp:
\* the grid stages
AloneGrid(its, rows) ==
    Once(findColumnBoundaries(its, rows), LAMBDA cols :
    Once(mapItemsToCells(its, rows, cols), LAMBDA cs :
        [cells |-> cs,
         entries |-> Flatten([k \in DOMAIN cs |-> parseCellToEntries(cs[k], cols)])]))

\* ... and what it settles with once the grid g is parsed
AloneReturn(g, key, resp) ==
    Once(validateAndDeduplicate(IF key = <<>> THEN g.entries
                                ELSE refineWithAI(g.entries, key, resp)), LAMBDA v :
        IF v.threw THEN Rejection("TypeError")
        ELSE ExtractionResult(v.valid, v.errors, g.cells))

AloneRows(its, rows, key, resp) ==
    IF rows = <<>> THEN Rejection("Could not find day labels")
    ELSE Once(AloneGrid(its, rows), LAMBDA g : AloneReturn(g, key, resp))

Alone(f, key, resp) ==
    Once(extractTextItems(f.runs), LAMBDA its :
        IF its = <<>> THEN Rejection("No text found in PDF")
        ELSE Once(findDayRows(its), LAMBDA rows : AloneRows(its, rows, key, resp)))

\* C14: two invocations on different documents whose steps interleave at the
\* refinement await each settle with what the same invocation settles with
\* when run alone.
C14_InvocationsIndependent ==
    \A i \in Invocations :
        inv[i].pc \in {"done", "rejected"} =>
            inv[i].result = Alone(inv[i].file, inv[i].apiKey, inv[i].response)

\* Both invocations returned, on different documents, each having been waiting
\* for its fetch while the other was, the first one's times changed by the
\* service
C14_Witness ==
    /\ \A i \in Invocations : inv[i].pc = "done" /\ inv[i].response # None
    /\ inv[1].file # inv[2].file
    /\ inv[1].overlapped \/ inv[2].overlapped
    /\ inv[1].response.kind = "array" /\ Len(inv[1].response.list) = 1
    /\ Len(inv[1].result.entries) = 1
    /\ Len(inv[2].result.entries) = 1
    /\ inv[1].result.entries # inv[2].result.entries


----------------------------------------------------------------------------
(* parseCellToEntries applied to one cell *)

sChemistry == <<"C","h","e","m","i","s","t","r","y">>

\* The tokens that a run of the cell may hold
CellTokens == { sPhysics, sHF09, sChemistry, sLAB02, sTeacherA }

\* The y of the four runs of the cell, top to bottom: gaps 10, 20, 10; gaps 12,
\* 13, 12; gaps 10, 10, 10
CellLayouts == { <<480, 470, 450, 440>>, <<480, 468, 455, 443>>, <<480, 470, 460, 450>> }

\* The columns of the periods 1 to 3
CellColumns == findColumnBoundaries(Layout, findDayRows(Layout))

Reverse(list) == [k \in DOMAIN list |-> list[Len(list) + 1 - k]]

\* The cells: four runs in one column, listed top to bottom or bottom to top
CellInputs ==
    { [day |-> d, periodIndex |-> p, texts |-> IF up THEN Reverse(runs) ELSE runs] :
        d \in {sMonday, sTuesday}, p \in {0, 1}, up \in BOOLEAN,
        runs \in { [k \in 1..4 |-> TextItem(tokens[k], 205, ys[k], 30)] :
                     tokens \in [1..4 -> CellTokens], ys \in CellLayouts } }

CellInit ==
    /\ fpc = "cell"
    /\ fIn \in CellInputs
    /\ fOut = None
    /\ PipeIdle /\ ValIdle /\ DetIdle /\ ConcIdle /\ SrvIdle

ParseCell ==
    /\ fpc = "cell"
    /\ \E parsed \in {parseCellToEntries(fIn, CellColumns)} : fOut' = parsed
    /\ fpc' = "parsed"
    /\ UNCHANGED <<fIn, pipeVars, valVars, detVars, concVars, srvVars>>

CellNext == ParseCell

CellSpec == CellInit /\ [][CellNext]_vars

\* The runs of the cell in reading order: y descending, then x ascending
ReadingOrder == SortCellTexts(fIn.texts)

\* The runs 1..k and k+1.. of the reading order are two groups of at least 2
\* runs, with gaps of at most 12 inside each and a gap greater than 12 between
TwoGroupsAt(k) ==
    /\ k >= 2 /\ k + 2 <= Len(ReadingOrder)
    /\ ReadingOrder[k].y - ReadingOrder[k + 1].y > 12
    /\ \A i \in 1..(Len(ReadingOrder) - 1) :
          i # k => ReadingOrder[i].y - ReadingOrder[i + 1].y <= 12

\* The slot of the column of the cell
CellSlot == DEFAULT_TIME_SLOTS[fIn.periodIndex + 1]

InCellSlot(e) == e.day = fIn.day /\ e.start_time = CellSlot.start /\ e.end_time = CellSlot.end

\* A token that no teacher, room, lab, class, group or block pattern matches
PlainToken(text) ==
    /\ Len(text) > 1
    /\ ~(IsTeacherCode(text) \/ IsDeptCode(text) \/ IsRoomCode(text) \/ IsLabCode(text))
    /\ ~(IsClassSection(text) \/ IsGroup(text) \/ IsGBlock(text) \/ IsBlock(text))

\* The plain tokens of the group of the runs lo..hi of the reading order
PlainTokens(lo, hi) ==
    SelectSeq([i \in 1..(hi - lo + 1) |-> ReadingOrder[lo + i - 1].text], PlainToken)

\* The first plain tokens of the groups that have one, top group first
GroupSubjects(k) ==
    (IF PlainTokens(1, k) = <<>> THEN <<>> ELSE << PlainTokens(1, k)[1] >>)
    \o (IF PlainTokens(k + 1, Len(ReadingOrder)) = <<>> THEN <<>>
        ELSE << PlainTokens(k + 1, Len(ReadingOrder))[1] >>)

\* C16, as stated: for a cell whose runs, in reading order, form two groups of
\* at least 2 runs each, with y-gaps of at most 12 inside each group and a
\* y-gap greater than 12 between them, parseCellToEntries yields one entry per
\* group, both with the cell's day and slot.
C16_OneEntryPerGroup ==
    \A k \in 1..4 :
        (fpc = "parsed" /\ TwoGroupsAt(k)) =>
            /\ Len(fOut) = 2
            /\ \A j \in DOMAIN fOut : InCellSlot(fOut[j])

\* C16, amended: for such a cell parseCellToEntries yields one entry for each
\* group that holds a token matching no teacher, room, class or block pattern,
\* top group first, and none for a group without such a token; each entry has
\* the cell's day and slot and a subject that starts with the first such token
\* of its group.
C16_OneEntryPerSubjectGroup ==
    \A k \in 1..4 :
        (fpc = "parsed" /\ TwoGroupsAt(k)) =>
            /\ Len(fOut) = Len(GroupSubjects(k))
            /\ \A j \in DOMAIN fOut :
                  /\ InCellSlot(fOut[j])
                  /\ startsWith(fOut[j].subject, GroupSubjects(k)[j])

\* Physics and HF09 over Chemistry and LAB02, gaps 12, 13, 12, listed bottom to
\* top: Physics in HF09 and Chemistry in LAB02, both Monday 09:00-09:50
C16_Witness ==
    /\ fpc = "parsed"
    /\ TwoGroupsAt(2)
    /\ fIn.texts[1].y < fIn.texts[2].y
    /\ ReadingOrder[2].y - ReadingOrder[3].y = 13
    /\ fOut = << Entry(sMonday, s0900, s0950, sPhysics, sEmpty, sHF09, sEmpty, sEmpty),
                 Entry(sMonday, s0900, s0950, sChemistry, sEmpty, sLAB02, sEmpty, sEmpty) >>

\* The column of the cell and the sub-groups of its runs
CellColumn == CellColumns[Min(ColumnsOfPeriod(fIn, CellColumns))]
CellGroups == SubGroups(ReadingOrder, 2, <<>>, << ReadingOrder[1] >>)

\* The entries of the sub-groups classified one by one, and the entry of the
\* texts of the cell classified together
PerGroupEntries ==
    Flatten([g \in DOMAIN CellGroups |->
               classifyTextsToEntry(TextsOf(CellGroups[g]), fIn.day, CellColumn)])
FlatEntry == classifyTextsToEntry(TextsOf(ReadingOrder), fIn.day, CellColumn)

\* C28: the flat fallback of parseCellToEntries never adds an entry: for every
\* cell, if classifying each sub-group separately yields no entry, classifying
\* all the texts of the cell together yields no entry either, so that
\* parseCellToEntries returns an empty list exactly when no token of the cell
\* falls into the subject bucket.
C28_FlatFallbackAddsNothing ==
    fpc = "parsed" =>
        /\ PerGroupEntries = <<>> => FlatEntry = <<>>
        /\ fOut = <<>> <=> \A k \in DOMAIN fIn.texts : ~PlainToken(fIn.texts[k].text)

\* A room and a teacher over a lab and a teacher, in two groups: no entry from
\* the groups, none from the cell as a whole
C28_Witness ==
    /\ fpc = "parsed"
    /\ TwoGroupsAt(2)
    /\ TextsOf(ReadingOrder) = << sHF09, sTeacherA, sLAB02, sTeacherA >>
    /\ Len(CellGroups) = 2
    /\ PerGroupEntries = <<>>
    /\ fOut = <<>>


----------------------------------------------------------------------------
(* snapToValidTimeSlot applied to one entry *)

s0905 == <<"0","9",":","0","5">>
s0835 == <<"0","8",":","3","5">>
s0834 == <<"0","8",":","3","4">>
s0836 == <<"0","8",":","3","6">>
s0000 == <<"0","0",":","0","0">>
s2359 == <<"2","3",":","5","9">>
s1720 == <<"1","7",":","2","0">>
s1745 == <<"1","7",":","4","5">>
s925 == <<"9",":","2","5">>
sAt1041 == <<"a","t"," ","1","0",":","4","1","!">>
s123 == <<"1","2",":","3">>

\* The start times given to snapToValidTimeSlot: on a slot, between two slots
\* (nearer to one, or as near to both), before the first and after the last
\* slot, with an hour of one digit, inside a longer string, and not a time
SnapStarts ==
    { s0900, s900, s0905, s905, s0835, s0834, s0836, s925, s1040, s1130, s0000, s2359,
      s1720, s1745, sAt1041, sNoon, s123, sEmpty }

SnapEnds == { s0950, s0900, s2359, sNoon, sEmpty }

SnapInputs ==
    { Entry(d, st, en, sMath, sTeacherA, sHF09, sEmpty, sEmpty) :
        d \in {sMonday, sXyz}, st \in SnapStarts, en \in SnapEnds }

SnapInit ==
    /\ fpc = "entry"
    /\ fIn \in SnapInputs
    /\ fOut = None
    /\ PipeIdle /\ ValIdle /\ DetIdle /\ ConcIdle /\ SrvIdle

Snap ==
    /\ fpc = "entry"
    /\ \E snapped \in {snapToValidTimeSlot(fIn)} : fOut' = snapped
    /\ fpc' = "snapped"
    /\ UNCHANGED <<fIn, pipeVars, valVars, detVars, concVars, srvVars>>

SnapNext == Snap

SnapSpec == SnapInit /\ [][SnapNext]_vars

\* The start time of the entry as HH:MM, and in minutes since midnight
ParsedStart == normalizeTime(fIn.start_time)
StartMinutes ==
    (DigitVal(ParsedStart[1]) * 10 + DigitVal(ParsedStart[2])) * 60
        + DigitVal(ParsedStart[4]) * 10 + DigitVal(ParsedStart[5])

\* The minutes since midnight of the start of slot i of the table
SlotMinutes(i) ==
    LET t == DEFAULT_TIME_SLOTS[i].start
    IN  (DigitVal(t[1]) * 10 + DigitVal(t[2])) * 60 + DigitVal(t[4]) * 10 + DigitVal(t[5])

\* The slots whose start is the start time, and the slots whose start is nearest
SlotsEqual == { i \in DOMAIN DEFAULT_TIME_SLOTS : DEFAULT_TIME_SLOTS[i].start = ParsedStart }
SlotsNearest ==
    { i \in DOMAIN DEFAULT_TIME_SLOTS :
        \A j \in DOMAIN DEFAULT_TIME_SLOTS :
            Abs(SlotMinutes(i) - StartMinutes) <= Abs(SlotMinutes(j) - StartMinutes) }

\* The slot the claim names: the first in table order
StatedSlot ==
    DEFAULT_TIME_SLOTS[IF SlotsEqual # {} THEN Min(SlotsEqual) ELSE Min(SlotsNearest)]

\* C18: snapToValidTimeSlot maps every entry whose start_time parses as HH:MM
\* onto the table slot whose start equals it if there is one, and otherwise
\* onto the slot whose start is nearest in minutes since midnight (the first
\* such slot in table order on a tie), and replaces end_time by that slot's
\* end whatever end_time the entry carried; the other fields are kept.
C18_SnapToNearestSlot ==
    (fpc = "snapped" /\ ParsedStart # <<>>) =>
        fOut = [fIn EXCEPT !.start_time = StatedSlot.start, !.end_time = StatedSlot.end]

\* Start 09:05 with an end that is not a time: 09:00 and 09:50
C18_Witness ==
    /\ fpc = "snapped"
    /\ fIn.start_time = s0905
    /\ fIn.end_time = sNoon
    /\ fOut.start_time = s0900
    /\ fOut.end_time = s0950

\* Start 08:35, as near to 08:10 as to 09:00: the first of the two, 08:10
C18_WitnessTie ==
    /\ fpc = "snapped"
    /\ fIn.start_time = s0835
    /\ Cardinality(SlotsNearest) = 2
    /\ fOut.start_time = DEFAULT_TIME_SLOTS[1].start
    /\ fOut.end_time = s0900


----------------------------------------------------------------------------
(* findDayRows and findColumnBoundaries applied to one run list *)

sP0 == <<"0", ".">>
sP12 == <<"1", "2", ".">>
sP13 == <<"1", "3", ".">>

MaxLabels == 2
MaxMarkers == 3
MaxAnchors == 13

\* The sequences of at most n distinct elements of S
DistinctSeqs(S, n) ==
    { l \in SeqsUpTo(S, n) : \A i, j \in DOMAIN l : l[i] = l[j] => i = j }

\* Day labels: twice the same day 5 apart and 200 apart, two days at one
\* height and 100 apart
GridLabels ==
    { TextItem(sMonday, 10, 500, 40), TextItem(sMonday, 12, 495, 40),
      TextItem(sMonday, 10, 300, 40), TextItem(sTuesday, 10, 500, 40),
      TextItem(sTuesday, 10, 400, 40) }

\* Period markers of the table: two at one x, one number at two x
GridMarkers ==
    { TextItem(sP1, 100, 600, 8), TextItem(sP2, 100, 600, 8),
      TextItem(sP3, 200, 600, 8), TextItem(sP1, 300, 600, 8) }

\* Three period markers outside the table, and two of them after one inside
OutsideMarkers ==
    << TextItem(sP12, 300, 600, 8), TextItem(sP0, 400, 600, 8), TextItem(sP13, 500, 600, 8) >>
OneInsideMarker ==
    << TextItem(sP1, 100, 600, 8), TextItem(sP12, 300, 600, 8), TextItem(sP13, 500, 600, 8) >>

\* The markers of every period of the table, and the marker of period 1 again
RepeatedMarkers ==
    [k \in 1..(Len(DEFAULT_TIME_SLOTS) + 1) |->
        TextItem(IF k > Len(DEFAULT_TIME_SLOTS) THEN sP1
                 ELSE IF k < 10 THEN << DigitChars[k + 1], "." >>
                 ELSE << "1", DigitChars[k - 9], "." >>,
                 100 + 50 * k, 600, 8)]

\* n time strings in the header, 30 apart
TimeStrings(n) == [k \in 1..n |-> TextItem(s0900, 100 + 30 * k, 600, 20)]

\* Two time strings 10 apart: one anchor
NearTimeStrings == << TextItem(s0900, 100, 600, 20), TextItem(s0950, 110, 600, 20) >>

\* The headers: period markers, time strings, and two markers before two time
\* strings
GridHeaders ==
    DistinctSeqs(GridMarkers, MaxMarkers)
        \cup { OutsideMarkers, OneInsideMarker, RepeatedMarkers, NearTimeStrings }
        \cup { TimeStrings(n) : n \in 0..MaxAnchors }
        \cup { << TextItem(sP1, 100, 600, 8), TextItem(sP2, 200, 600, 8) >> \o TimeStrings(2) }

\* The runs below the header: none, or one at the right of the page
GridBodies == { <<>>, << TextItem(sMathematics, 700, 450, 30) >> }

GridInputs ==
    { l \in { labels \o header \o body :
                labels \in DistinctSeqs(GridLabels, MaxLabels),
                header \in GridHeaders, body \in GridBodies } : Len(l) >= 1 }

GridInit ==
    /\ fpc = "runs"
    /\ fIn \in GridInputs
    /\ fOut = None
    /\ PipeIdle /\ ValIdle /\ DetIdle /\ ConcIdle /\ SrvIdle

\* Steps 2a and 2b of extractTimetableFromPDF on the run list
DetectGrid ==
    /\ fpc = "runs"
    /\ \E rows \in {findDayRows(fIn)} :
          fOut' = [rows |-> rows, columns |-> findColumnBoundaries(fIn, rows)]
    /\ fpc' = "grid"
    /\ UNCHANGED <<fIn, pipeVars, valVars, detVars, concVars, srvVars>>

GridNext == DetectGrid

GridSpec == GridInit /\ [][GridNext]_vars

\* C21: for every run list, findDayRows returns at most one row band for each
\* day name, so that the cell of a day and a period never collects runs from
\* two different bands.
C21_OneBandPerDay ==
    fpc = "grid" =>
        \A i, j \in DOMAIN fOut.rows : fOut.rows[i].day = fOut.rows[j].day => i = j


\* No x lies in both column bands: x >= left and x < right for neither or one
DisjointBands(a, b) ==
    (IF a.left > b.left THEN a.left ELSE b.left)
        >= (IF a.right < b.right THEN a.right ELSE b.right)

\* C22: for every run list and each of the three detection strategies, the
\* bands returned by findColumnBoundaries are in ascending left order,
\* pairwise non-overlapping (any x lies in at most one band), and their
\* periodIndex strictly increases with column order.
C22_ColumnsOrdered ==
    fpc = "grid" =>
        /\ \A i \in 1..(Len(fOut.columns) - 1) :
              /\ fOut.columns[i].left <= fOut.columns[i + 1].left
              /\ fOut.columns[i].periodIndex < fOut.columns[i + 1].periodIndex
        /\ \A i, j \in DOMAIN fOut.columns :
              i # j => DisjointBands(fOut.columns[i], fOut.columns[j])


\* The runs of the header of the run list, given its rows
HeaderOf(its, rows) ==
    HeaderItems(its, IF Len(rows) > 0 THEN rows[1].top
                     ELSE Max({ its[k].y : k \in DOMAIN its }) - HeaderDrop)

\* The anchors of the run list from left to right: the period markers of the
\* table when the header holds 3 markers or more, the time strings otherwise
AnchorRuns(its, rows) ==
    IF Len(SelectSeq(HeaderOf(its, rows), LAMBDA r : IsPeriodMarker(r.text))) >= MinPeriodHeaders
    THEN SortByX(SelectSeq(HeaderOf(its, rows), LAMBDA r :
             /\ IsPeriodMarker(r.text)
             /\ PeriodNumber(r.text) >= 1
             /\ PeriodNumber(r.text) <= Len(DEFAULT_TIME_SLOTS)))
    ELSE SortByX(SelectSeq(HeaderOf(its, rows), LAMBDA r : HasTime(r.text)))

\* The run list without the anchors after the first table-size ones
WithoutExtraAnchors(its, rows) ==
    SelectSeq(its, LAMBDA r :
        \A k \in DOMAIN AnchorRuns(its, rows) :
            AnchorRuns(its, rows)[k] = r => k <= Len(DEFAULT_TIME_SLOTS))

\* C23: for every run list, findColumnBoundaries returns no more bands than
\* the time-slot table has entries, and anchors beyond the table size are
\* ignored: the bands are those built from the first table-size anchors alone,
\* the right of the last band being the unbounded sentinel.
C23_AtMostTableSize ==
    fpc = "grid" =>
        /\ Len(fOut.columns) <= Len(DEFAULT_TIME_SLOTS)
        /\ fOut.columns = findColumnBoundaries(WithoutExtraAnchors(fIn, fOut.rows), fOut.rows)
        /\ fOut.columns # <<>> =>
              fOut.columns[Len(fOut.columns)].right = ColSentinel * ColScale


\* The period markers of the header of the run list
MarkersOf(its, rows) == SelectSeq(HeaderOf(its, rows), LAMBDA r : IsPeriodMarker(r.text))

\* The number of anchors the period-marker strategy finds (markers of the
\* table, in a header of 3 markers or more) and the time-string strategy finds
UsableMarkers(its, rows) ==
    IF Len(MarkersOf(its, rows)) >= MinPeriodHeaders
    THEN Len(PeriodMap(MarkersOf(its, rows)))
    ELSE 0
UsableTimes(its, rows) == Len(TimeAnchors(HeaderOf(its, rows)))

\* One band per time slot from the even division of the width right of the
\* assumed day-label column
EvenColumns(its) ==
    FirstColumns(EvenPositions(Min({ its[k].x : k \in DOMAIN its }),
                               Max({ its[k].x : k \in DOMAIN its })),
                 Len(DEFAULT_TIME_SLOTS))

\* C24: whenever the period-marker and the time-string strategies find fewer
\* than 2 usable anchors (3 or more period markers with numbers all outside
\* the table, and exactly one time-string anchor, included),
\* findColumnBoundaries builds one band per time slot from the positions that
\* divide the width right of the assumed day-label column evenly.
C24_EvenDivisionFallback ==
    (/\ fpc = "grid"
     /\ UsableMarkers(fIn, fOut.rows) < 2
     /\ UsableTimes(fIn, fOut.rows) < 2) =>
        fOut.columns = EvenColumns(fIn)


\* No y lies in both row bands: y <= top and y > bottom for neither or one
DisjointRows(a, b) ==
    (IF a.top < b.top THEN a.top ELSE b.top)
        <= (IF a.bottom > b.bottom THEN a.bottom ELSE b.bottom)

\* C25: for every run list with at least one day label, the bands returned by
\* findDayRows are in descending top order, the bottom of each band is the top
\* of the next, the bottom of the last band is the sentinel, and every band has
\* top >= bottom, so that any y lies in at most one band.
C25_RowsPartition ==
    (fpc = "grid" /\ \E k \in DOMAIN fIn : IsDayName(fIn[k].text)) =>
        /\ fOut.rows # <<>>
        /\ \A i \in 1..(Len(fOut.rows) - 1) :
              /\ fOut.rows[i].top >= fOut.rows[i + 1].top
              /\ fOut.rows[i].bottom = fOut.rows[i + 1].top
        /\ fOut.rows[Len(fOut.rows)].bottom = RowSentinel
        /\ \A i \in DOMAIN fOut.rows : fOut.rows[i].top >= fOut.rows[i].bottom
        /\ \A i, j \in DOMAIN fOut.rows : i # j => DisjointRows(fOut.rows[i], fOut.rows[j])

\* The lower label first in the run list: the band of the higher label comes
\* first and ends where the band of the lower one begins
C25_Witness ==
    /\ fpc = "grid"
    /\ Len(fIn) >= 2
    /\ IsDayName(fIn[1].text) /\ IsDayName(fIn[2].text)
    /\ fIn[1].y = 300 /\ fIn[2].y = 500
    /\ Len(fOut.rows) = 2
    /\ fOut.rows[1].top = 535 /\ fOut.rows[1].bottom = 335
    /\ fOut.rows[2].top = 335 /\ fOut.rows[2].bottom = RowSentinel

\* Two days at one height: the band of the first is empty
C25_WitnessEmptyBand ==
    /\ fpc = "grid"
    /\ Len(fOut.rows) = 2
    /\ fOut.rows[1].top = fOut.rows[1].bottom
    /\ fOut.rows[1].day # fOut.rows[2].day


----------------------------------------------------------------------------
(* classifyTextsToEntry applied to the texts of one sub-group *)

sAB1 == <<"A","B"," ","1">>
sXY2 == <<"X","Y"," ","2">>
sCSE6A == <<"C","S","E"," ","6","A">>

MaxTexts == 3

\* The tokens of a sub-group: two that no rule matches (of 10 characters or
\* more, and shorter), two that only /^[A-Z]{2,3}\s+\d/ matches, a class
\* section, a teacher and a room
GroupTokens == { sMathematics, sBio, sAB1, sXY2, sCSE6A, sTeacherA, sHF09 }

GroupInputs == SeqsUpTo(GroupTokens, MaxTexts) \ { <<>> }

GroupInit ==
    /\ fpc = "texts"
    /\ fIn \in GroupInputs
    /\ fOut = None
    /\ PipeIdle /\ ValIdle /\ DetIdle /\ ConcIdle /\ SrvIdle

\* classifyTextsToEntry(group.map(t => t.text), cell.day, col)
ClassifyGroup ==
    /\ fpc = "texts"
    /\ \E entry \in {classifyTextsToEntry(fIn, sMonday, CellColumns[1])} : fOut' = entry
    /\ fpc' = "entry"
    /\ UNCHANGED <<fIn, pipeVars, valVars, detVars, concVars, srvVars>>

GroupNext == ClassifyGroup

GroupSpec == GroupInit /\ [][GroupNext]_vars

\* The tokens of the sub-group that no teacher, room, class or block rule matches
PlainOfGroup == SelectSeq(fIn, PlainToken)

\* t is a part of s
Infix(t, s) == \E k \in 1..(Len(s) - Len(t) + 1) : SubSeq(s, k, k + Len(t) - 1) = t

\* C26: in classifyTextsToEntry, the first token of a sub-group that matches
\* no teacher, room, class or block rule becomes subject, and every later such
\* token ends up either appended to subject or stored in class_name; none is
\* discarded.
C26_NoTokenDiscarded ==
    (fpc = "entry" /\ PlainOfGroup # <<>>) =>
        /\ Len(fOut) = 1
        /\ startsWith(fOut[1].subject, PlainOfGroup[1])
        /\ \A k \in 2..Len(PlainOfGroup) :
              \/ Infix(<<" ">> \o PlainOfGroup[k], fOut[1].subject)
              \/ fOut[1].class_name = PlainOfGroup[k]


----------------------------------------------------------------------------
(* The server: POST /api/timetable/upload and                               *)
(* PATCH /api/substitutions/:id/respond.  db holds the Timetable documents  *)
(* of each teacher, the one Substitution document and its Leave, and the    *)
(* extra_classes and the number of Notification documents of each teacher.  *)

MaxCalls == 3
MaxUpload == 2

Teachers == {"original", "substitute"}

\* The id of the substitution, and an id that findById finds nothing for
SubstitutionIds == {"substitution", "unknown"}

\* An element of the array a client uploads
UploadRow(day, start, end, subject) ==
    [day |-> day, start_time |-> start, end_time |-> end, subject |-> subject,
     room |-> Missing, block |-> Missing, class_name |-> Missing]

\* Rows with every required field, and rows that lack end_time or subject
UploadRows ==
    { UploadRow(sMonday, s0900, s0950, sMath),
      UploadRow(sTuesday, s1040, s1130, sBio),
      UploadRow(sMonday, s0900, Missing, sMath),
      UploadRow(sTuesday, s1040, s1130, Missing) }

\* The bodies of a request: an array of rows, or a value that is no array
UploadBodies ==
    { [array |-> TRUE, rows |-> l] : l \in SeqsUpTo(UploadRows, MaxUpload) }
        \cup { [array |-> FALSE, rows |-> <<>>] }

\* The document the handler builds of an uploaded row (lines 174-183)
TimetableDoc(user, row) ==
    [teacher_id |-> user, day |-> row.day, start_time |-> row.start_time,
     end_time |-> row.end_time, subject |-> row.subject, room |-> OrEmpty(row.room),
     block |-> OrEmpty(row.block), class_name |-> OrEmpty(row.class_name)]

\* TimetableSchema: the fields that are required hold a non-empty string
PassesSchema(doc) ==
    \A f \in {"day", "start_time", "end_time", "subject"} : doc[f] # Missing /\ doc[f] # <<>>

\* The timetable stored for the teacher before the first request
OldTimetable(user) ==
    << TimetableDoc(user, UploadRow(sMonday, s0900, s0950, sPhysics)) >>

ApiInit ==
    /\ db = [timetable |-> [t \in Teachers |-> OldTimetable(t)],
             status |-> "pending",
             leave |-> "pending",
             extra_classes |-> [t \in Teachers |-> 0],
             notifications |-> [t \in Teachers |-> 0]]
    /\ answer = None
    /\ calls = 0
    /\ PipeIdle /\ ValIdle /\ DetIdle /\ ConcIdle /\ FnIdle

\* Timetable.insertMany(docs): the documents are validated first, and none is
\* stored when one of them fails
InsertMany(docs) ==
    IF \A k \in DOMAIN docs : PassesSchema(docs[k])
    THEN [code |-> 200, stored |-> docs]
    ELSE [code |-> 500, stored |-> <<>>]

\* The handler of POST /api/timetable/upload for an array: deleteMany, then
\* insertMany
UploadArray(user, body) ==
    \E ins \in {InsertMany(Tuple([k \in DOMAIN body.rows |-> TimetableDoc(user, body.rows[k])]))} :
        /\ db' = [db EXCEPT !.timetable[user] = ins.stored]
        /\ answer' = [route |-> "upload", user |-> user, body |-> body, code |-> ins.code]

\* POST /api/timetable/upload
Upload ==
    /\ calls < MaxCalls
    /\ \E user \in Teachers, body \in UploadBodies :
          IF ~body.array
          THEN /\ answer' = [route |-> "upload", user |-> user, body |-> body, code |-> 400]
               /\ db' = db
          ELSE UploadArray(user, body)
    /\ calls' = calls + 1
    /\ UNCHANGED <<pipeVars, valVars, detVars, concVars, fnVars>>

\* What the handler of PATCH /api/substitutions/:id/respond does once the
\* substitution is found and the user is its substitute (lines 276-315)
RespondFound(status) ==
    IF status = "confirmed"
    THEN [db EXCEPT !.status = status,
                    !.extra_classes["substitute"] = @ + 1,
                    !.extra_classes["original"] = @ - 1,
                    !.leave = "substituted",
                    !.notifications["original"] = @ + 1,
                    !.notifications["substitute"] = @ + 1]
    ELSE [db EXCEPT !.status = status, !.notifications["original"] = @ + 1]

\* The status code of the answer
RespondCode(id, user, status) ==
    IF status \notin {"confirmed", "rejected"} THEN 400
    ELSE IF id # "substitution" THEN 404
    ELSE IF user # "substitute" THEN 403
    ELSE 200

\* PATCH /api/substitutions/:id/respond
Respond ==
    /\ calls < MaxCalls
    /\ \E id \in SubstitutionIds, user \in Teachers,
          status \in {"confirmed", "rejected", "pending"} :
          /\ answer' = [route |-> "respond", user |-> user, id |-> id, status |-> status,
                        code |-> RespondCode(id, user, status)]
          /\ db' = IF RespondCode(id, user, status) = 200 THEN RespondFound(status) ELSE db
    /\ calls' = calls + 1
    /\ UNCHANGED <<pipeVars, valVars, detVars, concVars, fnVars>>

ApiNext == Upload \/ Respond

ApiSpec == ApiInit /\ [][ApiNext]_vars

\* C29: if POST /api/timetable/upload answers with an error (for instance
\* because one uploaded entry lacks a required field), the stored timetable of
\* the teacher is the same as before the request; the old timetable is
\* replaced only when all the new entries are stored.
C29_ErrorKeepsTimetable ==
    [][(calls' = calls + 1 /\ answer'.route = "upload") =>
          /\ answer'.code >= 400 => db'.timetable = db.timetable
          /\ db'.timetable # db.timetable =>
                /\ answer'.code = 200
                /\ Len(db'.timetable[answer'.user]) = Len(answer'.body.rows)]_vars

\* C30: for any sequence of calls to PATCH /api/substitutions/:id/respond on
\* one substitution, the extra_classes of the substitute is incremented and
\* that of the original teacher decremented at most once for the substitution.
C30_CountedOnce ==
    db # None =>
        /\ db.extra_classes["substitute"] <= 1
        /\ db.extra_classes["original"] >= -1

============================================================================
